---- MODULE Spec2Model ----
(***************************************************************************)
(* vkrs: the frame loop of App (src/src/vkrs/app.rs) as a state machine.   *)
(*                                                                         *)
(* One control thread runs the winit event loop (App::run) and, inside the *)
(* MainEventsCleared handler, App::draw_frame.  The GPU executes submitted *)
(* command buffers and the presentation engine executes acquire/present    *)
(* requests asynchronously; they are the actions Gpu* and Engine* below.   *)
(* The control thread's position is pc.                                    *)
(*                                                                         *)
(* The driver is modelled by the Vulkan contract the calls rely on:        *)
(*   - a fence/semaphore passed to vkQueueSubmit is signaled when the      *)
(*     batch completes, batches of one queue signal in submission order;   *)
(*   - vkAcquireNextImageKHR may return any image the application does not *)
(*     hold, also one the presentation engine has not released yet: the    *)
(*     semaphore it is given is signaled once the image is released;       *)
(*   - vkQueuePresentKHR queues a request that waits for its semaphore;    *)
(*     the requests of a queue are performed in the order they were queued.*)
(***************************************************************************)
EXTENDS Integers, Sequences, FiniteSets, TLC

\* const MAX_FRAMES_IN_FLIGHT: u32 = 2;
MAX_FRAMES_IN_FLIGHT == 2

\* Largest number of images a swapchain of the model has.
MaxImages == 2

\* Largest number of images acquired (frames started) in one behaviour.
MaxFrames == 3

Slots == 0 .. (MAX_FRAMES_IN_FLIGHT - 1)

\* The window's physical sizes: width and height are zero or the size main.rs asks for.
WindowSizes == [width : {0, 800}, height : {0, 600}]

NoImage == -1

Panics == {"panic_acquire", "panic_submit", "panic_present"}

VARIABLES
    pc,                          \* position of the control thread
    ret,                         \* where recreate_swapchain returns to: "draw" | "loop"
    current_frame,               \* App.current_frame
    recreate_swapchain,          \* the local of App::run: "No" | "Yes"
    image_index,                 \* the local of draw_frame, NoImage outside an iteration
    suboptimal,                  \* the flag acquire_next_image returned with image_index
    in_flight_fences,            \* slot -> signaled
    image_available_semaphores,  \* slot -> signaled
    render_finished_semaphores,  \* slot -> signaled
    swapchain_images,            \* number of images of the current swapchain
    swapchain_image_views,       \* number of image views
    swapchain_framebuffers,      \* number of framebuffers
    uniform_buffers,             \* number of uniform buffers
    uniform_buffer_memories,     \* number of uniform buffer memories
    descriptor_sets,             \* number of descriptor sets
    swapchains,                  \* number of swapchain handles created and not destroyed
    window_size,                 \* window.inner_size()
    exiting,                     \* control_flow = ControlFlow::Exit
    destroyed,                   \* the objects destroy_vulkan destroyed, in order
    gpuQueue,                    \* graphics queue: submitted, not completed batches
    engineOps,                   \* presentation engine: pending acquire/present requests
    frames,                      \* history: number of images acquired so far
    everSubmitted,               \* history: slots that were submitted at least once
    recreatePending,             \* history: draw_frame returned Yes, no recreation since
    imageCountChanged,           \* history: the last recreation changed the number of
                                 \* images and no image was acquired since
    lastResult,                  \* history: how the last iteration of draw_frame ended
    tracking, streak,            \* history: successive iterations returning No from slot 0
    waits, resets,               \* history: fence waits / resets per slot in the streak
    submits, presents,           \* history: queue_submit / queue_present calls made since
                                 \* the last image was acquired
    alive,                       \* the fields of App that hold a handle not yet destroyed
    calls,                       \* the calls of the last recreate_swapchain, until the
                                 \* next image is acquired
    call,                        \* the function of App::new applied last, with its arguments
    returned                     \* what it returned

vars == << pc, ret, current_frame, recreate_swapchain, image_index, suboptimal,
           in_flight_fences, image_available_semaphores, render_finished_semaphores,
           swapchain_images, swapchain_image_views, swapchain_framebuffers,
           uniform_buffers, uniform_buffer_memories, descriptor_sets, swapchains,
           window_size, exiting, destroyed, gpuQueue, engineOps, frames, everSubmitted,
           recreatePending, imageCountChanged, lastResult, tracking, streak, waits,
           resets, submits, presents, alive, calls, call, returned >>

\* The call of a function of App::new and its result.
probeVars == << call, returned >>

\* What acquire_next_image returned to the iteration of draw_frame.
acquireVars == << image_index, suboptimal >>

\* The swapchain and the objects recreate_swapchain rebuilds with it.
swapchainVars == << swapchain_images, swapchain_image_views, swapchain_framebuffers,
                    uniform_buffers, uniform_buffer_memories, descriptor_sets,
                    swapchains, imageCountChanged, alive, calls >>

\* The calls of the iteration of draw_frame that acquired the last image.
iterVars == << submits, presents >>

shutdownVars == << exiting, destroyed >>

appVars == << current_frame, recreate_swapchain, acquireVars, swapchainVars,
              window_size, shutdownVars >>

syncVars == << in_flight_fences, image_available_semaphores, render_finished_semaphores >>

histVars == << frames, everSubmitted, recreatePending, lastResult, tracking, streak,
               waits, resets >>

streakVars == << lastResult, tracking, streak, waits, resets >>

\* The variables of the event loop.
loopVars == << pc, ret, current_frame, recreate_swapchain, acquireVars, syncVars,
              swapchainVars, window_size, shutdownVars, gpuQueue, engineOps, histVars,
              iterVars >>

ZeroCount == [s \in Slots |-> 0]

RemoveAt(q, k) == SubSeq(q, 1, k - 1) \o SubSeq(q, k + 1, Len(q))

\* Some batch submitted with slot s has not completed.
Outstanding(s) == \E k \in 1 .. Len(gpuQueue) : gpuQueue[k].slot = s

----------------------------------------------------------------------------
(* The objects built with the swapchain; a Vec is modelled by its length.   *)

\* swapchain::create_swapchain_and_images(.., old_swapchain): the number of
\* undestroyed swapchain handles of the surface after the call.  The handle
\* given as old_swapchain is retired by the creation and destroyed right
\* after the replacement is constructed.
create_swapchain_and_images(live, old_swapchain) ==
    LET created == live + 1
    IN  IF old_swapchain THEN created - 1 ELSE created

\* swapchain::create_image_views: swapchain_images.iter().map(..).collect()
create_image_views(images) == images

\* vulkan::create_framebuffers: swapchain_image_views.iter().map(..).collect()
create_framebuffers(image_views) == image_views

\* vulkan::create_uniform_buffers: for _ in 0..num_buffers, one push to each Vec.
create_uniform_buffers(num_buffers) ==
    [buffers |-> num_buffers, buffer_memories |-> num_buffers]

\* vulkan::create_descriptor_sets(.., &uniform_buffers): one descriptor set
\* per uniform buffer, written once to reference the matching buffer.
create_descriptor_sets(buffers) == buffers

\* App::new: the objects it creates, in order (create_graphics_pipeline creates
\* the layout before the pipeline, create_buffer the buffer before its memory).
AppNew(enable_validation_layers) ==
    << "instance" >>
    \o (IF enable_validation_layers THEN << "debug_messenger" >> ELSE << >>)
    \o << "surface", "device", "swapchain_khr", "swapchain_image_views", "render_pass",
          "descriptor_set_layout", "pipeline_layout", "graphics_pipeline",
          "swapchain_framebuffers", "command_pool", "transient_command_pool",
          "vertex_buffer", "vertex_buffer_memory", "index_buffer", "index_buffer_memory",
          "uniform_buffers", "uniform_buffer_memories", "descriptor_pool",
          "descriptor_sets", "command_buffers", "image_available_semaphores",
          "render_finished_semaphores", "in_flight_fences" >>

\* The objects App::new creates from the logical device.
DeviceChildren ==
    {AppNew(TRUE)[k] : k \in 1 .. Len(AppNew(TRUE))}
        \ {"instance", "debug_messenger", "surface", "device"}

\* Descriptor sets and command buffers are released with their pools; every
\* other object has a destroy call of its own.
ExplicitlyDestroyed(object) == object \notin {"descriptor_sets", "command_buffers"}

\* The fields of App that hold a Vulkan handle; in a build without validation
\* layers debug_messenger holds a null handle, which is never destroyed.
Fields == {AppNew(TRUE)[k] : k \in 1 .. Len(AppNew(TRUE))}

\* A call that creates, replaces or destroys the handle of a field; uses are
\* the fields whose handles, or values read from them, the call is given.
VkCall(op, object, uses) == [op |-> op, object |-> object, uses |-> uses]

\* Destroying a pool releases what was allocated from it.
Released(object) ==
    {object} \cup (IF object = "descriptor_pool" THEN {"descriptor_sets"}
                   ELSE IF object = "command_pool" THEN {"command_buffers"}
                   ELSE {})

\* The destroy calls of a teardown: device.destroy_*(handle) for the objects
\* of the device, surface_fn / debug_utils_loader for those of the instance.
Destroys(objects) ==
    [k \in 1 .. Len(objects) |->
        VkCall("destroy", objects[k],
               IF objects[k] \in DeviceChildren THEN {"device"}
               ELSE IF objects[k] \in {"surface", "debug_messenger"} THEN {"instance"}
               ELSE {})]

\* The fields that hold a live handle after the calls.
RECURSIVE LiveAfter(_, _)
LiveAfter(cs, handles) ==
    IF cs = << >>
    THEN handles
    ELSE LiveAfter(Tail(cs),
                   IF Head(cs).op = "destroy"
                   THEN handles \ Released(Head(cs).object)
                   ELSE handles \cup {Head(cs).object})

\* App::new ... current_frame: 0; create_sync_objects creates the fences SIGNALED
\* and the semaphores unsignaled; run() starts with RecreateSwapchain::No.
Init ==
    /\ pc = "loop"
    /\ ret = "loop"
    /\ current_frame = 0
    /\ recreate_swapchain = "No"
    /\ image_index = NoImage
    /\ suboptimal = FALSE
    /\ in_flight_fences = [s \in Slots |-> TRUE]
    /\ image_available_semaphores = [s \in Slots |-> FALSE]
    /\ render_finished_semaphores = [s \in Slots |-> FALSE]
    /\ swapchain_images \in 1 .. MaxImages
    /\ swapchains = create_swapchain_and_images(0, FALSE)
    /\ swapchain_image_views = create_image_views(swapchain_images)
    /\ swapchain_framebuffers = create_framebuffers(swapchain_image_views)
    /\ uniform_buffers = create_uniform_buffers(swapchain_images).buffers
    /\ uniform_buffer_memories = create_uniform_buffers(swapchain_images).buffer_memories
    /\ descriptor_sets = create_descriptor_sets(uniform_buffers)
    /\ imageCountChanged = FALSE
    /\ window_size = [width |-> 800, height |-> 600]
    /\ exiting = FALSE
    /\ destroyed = << >>
    /\ gpuQueue = << >>
    /\ engineOps = << >>
    /\ frames = 0
    /\ everSubmitted = {}
    /\ recreatePending = FALSE
    /\ lastResult = "none"
    /\ tracking = FALSE
    /\ streak = 0
    /\ waits = ZeroCount
    /\ resets = ZeroCount
    /\ submits = 0
    /\ presents = 0
    /\ alive = Fields
    /\ calls = << >>
    /\ call = [fn |-> "none"]
    /\ returned = "none"

----------------------------------------------------------------------------
(* History bookkeeping of an iteration of draw_frame.                      *)

\* An iteration of draw_frame starts: a streak starts (or restarts) at slot 0.
StartIteration ==
    IF current_frame = 0 /\ (~tracking \/ streak = MAX_FRAMES_IN_FLIGHT)
    THEN /\ tracking' = TRUE /\ streak' = 0 /\ waits' = ZeroCount /\ resets' = ZeroCount
         /\ UNCHANGED lastResult
    ELSE IF tracking /\ streak = MAX_FRAMES_IN_FLIGHT
         THEN tracking' = FALSE /\ UNCHANGED << lastResult, streak, waits, resets >>
         ELSE UNCHANGED streakVars

\* draw_frame returned RecreateSwapchain::No.
ReturnedNo ==
    /\ lastResult' = "No"
    /\ streak' = IF tracking THEN streak + 1 ELSE streak
    /\ UNCHANGED << tracking, waits, resets >>

\* draw_frame returned RecreateSwapchain::Yes, or panicked.
StreakBroken(result) ==
    /\ lastResult' = result
    /\ tracking' = FALSE
    /\ UNCHANGED << streak, waits, resets >>

----------------------------------------------------------------------------
(* App::run: the event handlers.                                           *)

\* The handler as it would be if it drew without looking at the flag.
MainEventsCleared_NoRecreate ==
    /\ pc = "loop"
    /\ frames < MaxFrames
    /\ pc' = "draw_wait" /\ UNCHANGED ret /\ StartIteration
    /\ UNCHANGED << probeVars, iterVars, appVars, syncVars, gpuQueue, engineOps, frames,
                    everSubmitted, recreatePending >>

\* Event::MainEventsCleared, up to the call of draw_frame.
MainEventsCleared ==
    /\ pc = "loop"
    /\ frames < MaxFrames
    /\ IF recreate_swapchain = "Yes"
       THEN IF window_size.width = 0 \/ window_size.height = 0
            THEN UNCHANGED << pc, ret, streakVars >>
            ELSE pc' = "recreate" /\ ret' = "draw" /\ UNCHANGED streakVars
       ELSE pc' = "draw_wait" /\ UNCHANGED ret /\ StartIteration
    /\ UNCHANGED << probeVars, iterVars, appVars, syncVars, gpuQueue, engineOps, frames,
                    everSubmitted, recreatePending >>

\* WindowEvent::Resized(window_size) => self.recreate_swapchain(&window_size)
Resized ==
    /\ pc = "loop"
    /\ \E size \in WindowSizes : window_size' = size
    /\ pc' = "recreate"
    /\ ret' = "loop"
    /\ UNCHANGED << probeVars, iterVars, current_frame, recreate_swapchain, acquireVars, swapchainVars,
                    shutdownVars, syncVars, gpuQueue, engineOps, histVars >>

\* WindowEvent::CloseRequested => *control_flow = ControlFlow::Exit
CloseRequested ==
    /\ pc = "loop"
    /\ ~exiting
    /\ exiting' = TRUE
    /\ UNCHANGED << probeVars, iterVars, pc, ret, destroyed, current_frame, recreate_swapchain, acquireVars,
                    swapchainVars, window_size, syncVars, gpuQueue, engineOps,
                    histVars >>

\* Event::LoopDestroyed, up to the call of device_wait_idle().
LoopDestroyed ==
    /\ pc = "loop"
    /\ exiting
    /\ pc' = "destroy_wait"
    /\ UNCHANGED << probeVars, iterVars, ret, appVars, syncVars, gpuQueue, engineOps, histVars >>

\* device_wait_idle() as it would be if it returned without waiting.
DeviceWaitIdle_NoWait == TRUE

\* self.device.device_wait_idle(): returns when the queue has drained.
DeviceWaitIdle == gpuQueue = << >>

\* App::cleanup_swapchain: the objects it destroys, in order.
cleanup_swapchain(destroy_old_swapchain) ==
    << "swapchain_framebuffers", "graphics_pipeline", "pipeline_layout", "render_pass",
       "uniform_buffers", "uniform_buffer_memories", "descriptor_pool",
       "swapchain_image_views" >>
    \o (IF destroy_old_swapchain THEN << "swapchain_khr" >> ELSE << >>)

\* destroy_vulkan as it would be with the device destroyed before the
\* swapchain objects and the descriptor set layout.
destroy_vulkan_DeviceEarly(enable_validation_layers) ==
    << "index_buffer", "index_buffer_memory", "vertex_buffer", "vertex_buffer_memory",
       "image_available_semaphores", "render_finished_semaphores", "in_flight_fences",
       "transient_command_pool", "command_pool", "device" >>
    \o cleanup_swapchain(TRUE)
    \o << "descriptor_set_layout", "surface" >>
    \o (IF enable_validation_layers THEN << "debug_messenger" >> ELSE << >>)
    \o << "instance" >>

\* App::destroy_vulkan: the objects it destroys, in order.
destroy_vulkan(enable_validation_layers) ==
    << "index_buffer", "index_buffer_memory", "vertex_buffer", "vertex_buffer_memory",
       "image_available_semaphores", "render_finished_semaphores", "in_flight_fences",
       "transient_command_pool", "command_pool" >>
    \o cleanup_swapchain(TRUE)
    \o << "descriptor_set_layout", "device", "surface" >>
    \o (IF enable_validation_layers THEN << "debug_messenger" >> ELSE << >>)
    \o << "instance" >>

\* Event::LoopDestroyed, from device_wait_idle() on: self.destroy_vulkan().
\* validation::ENABLE_VALIDATION_LAYERS is fixed by the build (debug_assertions);
\* it is read here only, so both builds are covered by the choice.
DestroyVulkan ==
    /\ pc = "destroy_wait"
    /\ DeviceWaitIdle
    /\ \E enable_validation_layers \in BOOLEAN :
          /\ destroyed' = destroy_vulkan(enable_validation_layers)
          /\ alive' = LiveAfter(Destroys(destroy_vulkan(enable_validation_layers)), alive)
    /\ swapchains' = swapchains - 1
    /\ pc' = "destroyed"
    /\ UNCHANGED << probeVars, iterVars, ret, current_frame, recreate_swapchain, acquireVars,
                    swapchain_images, swapchain_image_views, swapchain_framebuffers,
                    uniform_buffers, uniform_buffer_memories, descriptor_sets,
                    imageCountChanged, calls, window_size, exiting, syncVars, gpuQueue,
                    engineOps, histVars >>

----------------------------------------------------------------------------
(* App::recreate_swapchain.                                                *)

\* The requests still pending in the presentation engine belong to the
\* retired swapchain.
Retired(op) == [op EXCEPT !.cur = FALSE, !.image = NoImage, !.frame = 0]

\* The objects recreate_swapchain builds after the swapchain, in order, each
\* with what its creation is given: create_image_views the images, the render
\* pass the format, the pipeline the extent, the render pass and the layouts,
\* the framebuffers the views, the render pass and the extent, the uniform
\* buffers and the descriptor pool the number of images, the descriptor sets
\* the pool, the set layout and the uniform buffers.
SwapchainDependents ==
    << VkCall("create", "swapchain_image_views", {"device", "swapchain_khr"}),
       VkCall("create", "render_pass", {"device", "swapchain_khr"}),
       VkCall("create", "pipeline_layout", {"device", "descriptor_set_layout"}),
       VkCall("create", "graphics_pipeline",
              {"device", "swapchain_khr", "render_pass", "pipeline_layout"}),
       VkCall("create", "swapchain_framebuffers",
              {"device", "swapchain_khr", "swapchain_image_views", "render_pass"}),
       VkCall("create", "uniform_buffers", {"device", "swapchain_khr"}),
       VkCall("create", "uniform_buffer_memories", {"device", "uniform_buffers"}),
       VkCall("create", "descriptor_pool", {"device", "swapchain_khr"}),
       VkCall("create", "descriptor_sets",
              {"device", "descriptor_pool", "descriptor_set_layout", "uniform_buffers"}) >>

\* create_swapchain_and_images(.., Some(self.swapchain_khr)): the new swapchain
\* replaces the one it is given as old_swapchain.
ReplaceSwapchain == VkCall("replace", "swapchain_khr", {"device", "surface", "swapchain_khr"})

\* recreate_swapchain as it would be with the framebuffers built right after
\* the image views.
RecreateSwapchainCalls_FramebuffersFirst ==
    Destroys(cleanup_swapchain(FALSE))
    \o << ReplaceSwapchain, SwapchainDependents[1], SwapchainDependents[5] >>
    \o SubSeq(SwapchainDependents, 2, 4)
    \o SubSeq(SwapchainDependents, 6, 9)

\* recreate_swapchain as it would be if it also freed and allocated the
\* command buffers.
RecreateSwapchainCalls_CommandBuffers ==
    Destroys(cleanup_swapchain(FALSE) \o << "command_buffers" >>)
    \o << ReplaceSwapchain >>
    \o SwapchainDependents
    \o << VkCall("create", "command_buffers", {"device", "command_pool"}) >>

\* recreate_swapchain as it would be with cleanup_swapchain(DestroyOldSwapchain::Yes).
RecreateSwapchainCalls_DestroyOld ==
    Destroys(cleanup_swapchain(TRUE)) \o << ReplaceSwapchain >> \o SwapchainDependents

\* App::recreate_swapchain after device_wait_idle: the calls it makes, in order.
RecreateSwapchainCalls ==
    Destroys(cleanup_swapchain(FALSE)) \o << ReplaceSwapchain >> \o SwapchainDependents

\* recreate_swapchain as it would be with None for the old swapchain, as in
\* App::new.
RebuildSwapchain_NoOldSwapchain ==
    /\ \E n \in 1 .. MaxImages :
          /\ swapchain_images' = n
          /\ imageCountChanged' = (n # swapchain_images)
    /\ swapchains' = create_swapchain_and_images(swapchains, FALSE)
    /\ swapchain_image_views' = create_image_views(swapchain_images')
    /\ swapchain_framebuffers' = create_framebuffers(swapchain_image_views')
    /\ uniform_buffers' = create_uniform_buffers(swapchain_images').buffers
    /\ uniform_buffer_memories' = create_uniform_buffers(swapchain_images').buffer_memories
    /\ descriptor_sets' = create_descriptor_sets(uniform_buffers')
    /\ calls' = RecreateSwapchainCalls
    /\ alive' = LiveAfter(RecreateSwapchainCalls, alive)

\* recreate_swapchain as it would be if it kept the uniform buffers and the
\* descriptor sets of the old swapchain.
RebuildSwapchain_KeepUniformBuffers ==
    /\ \E n \in 1 .. MaxImages :
          /\ swapchain_images' = n
          /\ imageCountChanged' = (n # swapchain_images)
    /\ swapchains' = create_swapchain_and_images(swapchains, TRUE)
    /\ swapchain_image_views' = create_image_views(swapchain_images')
    /\ swapchain_framebuffers' = create_framebuffers(swapchain_image_views')
    /\ UNCHANGED << uniform_buffers, uniform_buffer_memories, descriptor_sets >>
    /\ calls' = RecreateSwapchainCalls
    /\ alive' = LiveAfter(RecreateSwapchainCalls, alive)

\* recreate_swapchain after cleanup_swapchain(DestroyOldSwapchain::No): the new
\* swapchain, with Some(self.swapchain_khr) as the old one, and the objects
\* built from its images; the surface decides the number of images.
RebuildSwapchain ==
    /\ \E n \in 1 .. MaxImages :
          /\ swapchain_images' = n
          /\ imageCountChanged' = (n # swapchain_images)
    /\ swapchains' = create_swapchain_and_images(swapchains, TRUE)
    /\ swapchain_image_views' = create_image_views(swapchain_images')
    /\ swapchain_framebuffers' = create_framebuffers(swapchain_image_views')
    /\ uniform_buffers' = create_uniform_buffers(swapchain_images').buffers
    /\ uniform_buffer_memories' = create_uniform_buffers(swapchain_images').buffer_memories
    /\ descriptor_sets' = create_descriptor_sets(uniform_buffers')
    /\ calls' = RecreateSwapchainCalls
    /\ alive' = LiveAfter(RecreateSwapchainCalls, alive)

\* recreate_swapchain: device_wait_idle(), cleanup_swapchain, then the new
\* swapchain and its dependents.
RecreateSwapchain ==
    /\ pc = "recreate"
    /\ DeviceWaitIdle
    /\ RebuildSwapchain
    /\ engineOps' = [k \in 1 .. Len(engineOps) |-> Retired(engineOps[k])]
    /\ recreatePending' = FALSE
    /\ IF ret = "draw"
       THEN pc' = "draw_wait" /\ StartIteration
       ELSE pc' = "loop" /\ UNCHANGED streakVars
    /\ UNCHANGED << probeVars, iterVars, ret, current_frame, recreate_swapchain, acquireVars, window_size,
                    shutdownVars, syncVars, gpuQueue, frames, everSubmitted >>

----------------------------------------------------------------------------
(* App::draw_frame, one action per Vulkan call.                            *)

\* draw_frame as it would be with the fence reset right after the wait, before
\* the acquire.
WaitForFences_ThenReset ==
    /\ pc = "draw_wait"
    /\ in_flight_fences[current_frame]
    /\ in_flight_fences' = [in_flight_fences EXCEPT ![current_frame] = FALSE]
    /\ pc' = "acquire"
    /\ waits' = IF tracking THEN [waits EXCEPT ![current_frame] = @ + 1] ELSE waits
    /\ UNCHANGED << probeVars, iterVars, ret, appVars, image_available_semaphores,
                    render_finished_semaphores, gpuQueue, engineOps, frames,
                    everSubmitted, recreatePending, lastResult, tracking, streak, resets >>

\* draw_frame as it would be without the wait on the slot's fence.
WaitForFences_NoWait ==
    /\ pc = "draw_wait"
    /\ pc' = "acquire"
    /\ waits' = IF tracking THEN [waits EXCEPT ![current_frame] = @ + 1] ELSE waits
    /\ UNCHANGED << probeVars, iterVars, ret, appVars, syncVars, gpuQueue, engineOps, frames,
                    everSubmitted, recreatePending, lastResult, tracking, streak, resets >>

\* wait_for_fences(&[in_flight_fences[current_frame]], true, u64::MAX)
WaitForFences ==
    /\ pc = "draw_wait"
    /\ in_flight_fences[current_frame]
    /\ pc' = "acquire"
    /\ waits' = IF tracking THEN [waits EXCEPT ![current_frame] = @ + 1] ELSE waits
    /\ UNCHANGED << probeVars, iterVars, ret, appVars, syncVars, gpuQueue, engineOps, frames,
                    everSubmitted, recreatePending, lastResult, tracking, streak, resets >>

\* acquire_next_image(...) => Ok((image_index, suboptimal))
AcquireOk ==
    /\ pc = "acquire"
    /\ suboptimal' \in BOOLEAN
    /\ \E i \in 0 .. (swapchain_images - 1) :
          /\ image_index' = i
          /\ engineOps' = Append(engineOps,
                [kind |-> "acquire", frame |-> frames + 1, slot |-> current_frame,
                 image |-> i, cur |-> TRUE])
    /\ frames' = frames + 1
    /\ pc' = "update_ubo"
    /\ imageCountChanged' = FALSE
    /\ submits' = 0 /\ presents' = 0
    /\ calls' = << >>
    /\ UNCHANGED << probeVars, alive, ret, current_frame, recreate_swapchain, swapchain_images,
                    swapchain_image_views, swapchain_framebuffers, uniform_buffers,
                    uniform_buffer_memories, descriptor_sets, swapchains,
                    window_size, shutdownVars, syncVars, gpuQueue, everSubmitted,
                    recreatePending, streakVars >>

\* acquire_next_image(...) => Err(ERROR_OUT_OF_DATE_KHR) => return RecreateSwapchain::Yes
AcquireOutOfDate ==
    /\ pc = "acquire"
    /\ pc' = "loop"
    /\ recreate_swapchain' = "Yes"
    /\ recreatePending' = TRUE
    /\ StreakBroken("AcquireOutOfDate")
    /\ UNCHANGED << probeVars, iterVars, ret, current_frame, acquireVars, swapchainVars, window_size,
                    shutdownVars, syncVars, gpuQueue, engineOps, frames,
                    everSubmitted >>

\* draw_frame as it would be if every Err of acquire_next_image returned
\* RecreateSwapchain::Yes.
AcquireError_Recreate ==
    /\ pc = "acquire"
    /\ pc' = "loop"
    /\ recreate_swapchain' = "Yes"
    /\ recreatePending' = TRUE
    /\ StreakBroken("panic")
    /\ UNCHANGED << probeVars, iterVars, ret, current_frame, acquireVars, swapchainVars, window_size,
                    shutdownVars, syncVars, gpuQueue, engineOps, frames,
                    everSubmitted >>

\* acquire_next_image(...) => Err(error) => panic!("Error acquiring next image")
AcquireError ==
    /\ pc = "acquire"
    /\ pc' = "panic_acquire"
    /\ StreakBroken("panic")
    /\ UNCHANGED << probeVars, iterVars, ret, appVars, syncVars, gpuQueue, engineOps, frames,
                    everSubmitted, recreatePending >>

\* self.update_uniform_buffer(image_index): the host writes
\* uniform_buffer_memories[image_index].
UpdateUniformBuffer ==
    /\ pc = "update_ubo"
    /\ pc' = "reset_fences"
    /\ UNCHANGED << probeVars, iterVars, ret, appVars, syncVars, gpuQueue, engineOps, histVars >>

\* draw_frame as it would be without the reset of the slot's fence.
ResetFences_Skipped ==
    /\ pc = "reset_fences"
    /\ resets' = IF tracking THEN [resets EXCEPT ![current_frame] = @ + 1] ELSE resets
    /\ pc' = "record"
    /\ UNCHANGED << probeVars, iterVars, ret, appVars, syncVars, gpuQueue, engineOps, frames,
                    everSubmitted, recreatePending, lastResult, tracking, streak, waits >>

\* self.device.reset_fences(&fences)
ResetFences ==
    /\ pc = "reset_fences"
    /\ in_flight_fences' = [in_flight_fences EXCEPT ![current_frame] = FALSE]
    /\ resets' = IF tracking THEN [resets EXCEPT ![current_frame] = @ + 1] ELSE resets
    /\ pc' = "record"
    /\ UNCHANGED << probeVars, iterVars, ret, appVars, image_available_semaphores,
                    render_finished_semaphores, gpuQueue, engineOps, frames,
                    everSubmitted, recreatePending, lastResult, tracking, streak, waits >>

\* reset_command_buffer(command_buffers[current_frame]) and record_command_buffer(...)
RecordCommandBuffer ==
    /\ pc = "record"
    /\ pc' = "submit"
    /\ UNCHANGED << probeVars, iterVars, ret, appVars, syncVars, gpuQueue, engineOps, histVars >>

\* queue_submit as it would be with no wait semaphore in the SubmitInfo.
QueueSubmitOk_NoWaitSemaphore ==
    /\ pc = "submit"
    /\ gpuQueue' = Append(gpuQueue,
          [frame |-> frames, slot |-> current_frame, image |-> image_index,
           stage |-> "color", presenting |-> FALSE])
    /\ everSubmitted' = everSubmitted \cup {current_frame}
    /\ pc' = "present"
    /\ submits' = submits + 1
    /\ UNCHANGED << probeVars, presents, ret, appVars, syncVars, engineOps, frames,
                    recreatePending, streakVars >>

\* queue_submit(graphics_queue, [wait image_available[current_frame] at
\* COLOR_ATTACHMENT_OUTPUT, signal render_finished[current_frame]],
\* in_flight_fences[current_frame]) => Ok
QueueSubmitOk ==
    /\ pc = "submit"
    /\ gpuQueue' = Append(gpuQueue,
          [frame |-> frames, slot |-> current_frame, image |-> image_index,
           stage |-> "pre", presenting |-> FALSE])
    /\ everSubmitted' = everSubmitted \cup {current_frame}
    /\ pc' = "present"
    /\ submits' = submits + 1
    /\ UNCHANGED << probeVars, presents, ret, appVars, syncVars, engineOps, frames,
                    recreatePending, streakVars >>

\* queue_submit(...) => Err => expect("Failed to submit draw command buffer.")
QueueSubmitError ==
    /\ pc = "submit"
    /\ pc' = "panic_submit"
    /\ StreakBroken("panic")
    /\ submits' = submits + 1
    /\ UNCHANGED << probeVars, presents, ret, appVars, syncVars, gpuQueue, engineOps, frames,
                    everSubmitted, recreatePending >>

\* The request queue_present hands to the presentation engine: wait
\* signal_semaphores = render_finished[current_frame], present image_index.
PresentRequest ==
    [kind |-> "present", frame |-> frames, slot |-> current_frame,
     image |-> image_index, cur |-> TRUE]

\* draw_frame as it would be if it never advanced current_frame.
QueuePresentOk_NoAdvance ==
    /\ pc = "present"
    /\ engineOps' = Append(engineOps, PresentRequest)
    /\ recreate_swapchain' = "No"
    /\ image_index' = NoImage
    /\ suboptimal' = FALSE
    /\ pc' = "loop"
    /\ ReturnedNo
    /\ presents' = presents + 1
    /\ UNCHANGED << probeVars, submits, ret, current_frame, swapchainVars, window_size, shutdownVars,
                    syncVars, gpuQueue, frames, everSubmitted, recreatePending >>

\* queue_present(...) => Ok(false); current_frame advances; RecreateSwapchain::No
QueuePresentOk ==
    /\ pc = "present"
    /\ engineOps' = Append(engineOps, PresentRequest)
    /\ current_frame' = (current_frame + 1) % MAX_FRAMES_IN_FLIGHT
    /\ recreate_swapchain' = "No"
    /\ image_index' = NoImage
    /\ suboptimal' = FALSE
    /\ pc' = "loop"
    /\ ReturnedNo
    /\ presents' = presents + 1
    /\ UNCHANGED << probeVars, submits, ret, swapchainVars, window_size, shutdownVars, syncVars, gpuQueue,
                    frames, everSubmitted, recreatePending >>

\* queue_present(...) => Ok(true) | Err(ERROR_OUT_OF_DATE_KHR)
\*   => return RecreateSwapchain::Yes
QueuePresentRecreate ==
    /\ pc = "present"
    /\ engineOps' = Append(engineOps, PresentRequest)
    /\ recreate_swapchain' = "Yes"
    /\ recreatePending' = TRUE
    /\ image_index' = NoImage
    /\ suboptimal' = FALSE
    /\ pc' = "loop"
    /\ StreakBroken("PresentYes")
    /\ presents' = presents + 1
    /\ UNCHANGED << probeVars, submits, ret, current_frame, swapchainVars, window_size, shutdownVars,
                    syncVars, gpuQueue, frames, everSubmitted >>

\* queue_present(...) => Err(error) => panic!("Failed to present swapchain image")
QueuePresentError ==
    /\ pc = "present"
    /\ pc' = "panic_present"
    /\ StreakBroken("panic")
    /\ presents' = presents + 1
    /\ UNCHANGED << probeVars, submits, ret, appVars, syncVars, gpuQueue, engineOps, frames,
                    everSubmitted, recreatePending >>

----------------------------------------------------------------------------
(* The GPU and the presentation engine.                                    *)

Running == pc \notin (Panics \cup {"destroyed"})

\* A batch passes its semaphore wait at COLOR_ATTACHMENT_OUTPUT: the wait
\* unsignals image_available[slot] and colour output to the image begins.
GpuBeginColorOutput ==
    /\ Running
    /\ \E k \in 1 .. Len(gpuQueue) :
          /\ gpuQueue[k].stage = "pre"
          /\ image_available_semaphores[gpuQueue[k].slot]
          /\ image_available_semaphores' =
                [image_available_semaphores EXCEPT ![gpuQueue[k].slot] = FALSE]
          /\ gpuQueue' = [gpuQueue EXCEPT ![k].stage = "color"]
    /\ UNCHANGED << probeVars, iterVars, pc, ret, appVars, in_flight_fences, render_finished_semaphores,
                    engineOps, histVars >>

\* The oldest batch completes: it signals render_finished[slot] and the fence.
GpuComplete ==
    /\ Running
    /\ gpuQueue # << >>
    /\ gpuQueue[1].stage = "color"
    /\ render_finished_semaphores' =
          [render_finished_semaphores EXCEPT ![gpuQueue[1].slot] = TRUE]
    /\ in_flight_fences' = [in_flight_fences EXCEPT ![gpuQueue[1].slot] = TRUE]
    /\ gpuQueue' = Tail(gpuQueue)
    /\ UNCHANGED << probeVars, iterVars, pc, ret, appVars, image_available_semaphores, engineOps,
                    histVars >>

\* Present requests of a queue are performed in the order they were queued; an
\* acquired image is released once the earlier requests that present the same
\* image of the current swapchain are performed.
EngineReady(k) ==
    \A j \in 1 .. (k - 1) :
        IF engineOps[k].kind = "present"
        THEN engineOps[j].kind # "present"
        ELSE ~(engineOps[j].cur /\ engineOps[j].image = engineOps[k].image)

\* The engine releases an acquired image: it signals the semaphore of the acquire.
EngineAcquireSignal ==
    /\ Running
    /\ \E k \in 1 .. Len(engineOps) :
          /\ engineOps[k].kind = "acquire"
          /\ EngineReady(k)
          /\ image_available_semaphores' =
                [image_available_semaphores EXCEPT ![engineOps[k].slot] = TRUE]
          /\ engineOps' = RemoveAt(engineOps, k)
    /\ UNCHANGED << probeVars, iterVars, pc, ret, appVars, in_flight_fences, render_finished_semaphores,
                    gpuQueue, histVars >>

\* The engine passes the semaphore wait of a present request and starts to
\* present the image.
EnginePresent ==
    /\ Running
    /\ \E k \in 1 .. Len(engineOps) :
          /\ engineOps[k].kind = "present"
          /\ EngineReady(k)
          /\ render_finished_semaphores[engineOps[k].slot]
          /\ render_finished_semaphores' =
                [render_finished_semaphores EXCEPT ![engineOps[k].slot] = FALSE]
          /\ gpuQueue' = [j \in 1 .. Len(gpuQueue) |->
                IF gpuQueue[j].frame = engineOps[k].frame
                THEN [gpuQueue[j] EXCEPT !.presenting = TRUE]
                ELSE gpuQueue[j]]
          /\ engineOps' = RemoveAt(engineOps, k)
    /\ UNCHANGED << probeVars, iterVars, pc, ret, appVars, in_flight_fences, image_available_semaphores,
                    histVars >>

----------------------------------------------------------------------------

Next ==
    \/ MainEventsCleared
    \/ Resized
    \/ CloseRequested
    \/ LoopDestroyed
    \/ DestroyVulkan
    \/ RecreateSwapchain
    \/ WaitForFences
    \/ AcquireOk
    \/ AcquireOutOfDate
    \/ AcquireError
    \/ UpdateUniformBuffer
    \/ ResetFences
    \/ RecordCommandBuffer
    \/ QueueSubmitOk
    \/ QueueSubmitError
    \/ QueuePresentOk
    \/ QueuePresentRecreate
    \/ QueuePresentError
    \/ GpuBeginColorOutput
    \/ GpuComplete
    \/ EngineAcquireSignal
    \/ EnginePresent

Spec == Init /\ [][Next]_vars

\* The frame loop with a GPU and a presentation engine that eventually perform
\* every operation they can perform, and a wait_for_fences that returns once
\* its fence is signaled.
SpecLive ==
    /\ Init
    /\ [][Next]_vars
    /\ WF_vars(WaitForFences)
    /\ WF_vars(GpuBeginColorOutput)
    /\ WF_vars(GpuComplete)
    /\ WF_vars(EngineAcquireSignal)
    /\ WF_vars(EnginePresent)

\* The fields whose handles the call at a position of draw_frame is given.
Uses(position) ==
    CASE position = "draw_wait" -> {"device", "in_flight_fences"}
      [] position = "acquire" -> {"swapchain_khr", "image_available_semaphores"}
      [] position = "update_ubo" -> {"device", "uniform_buffer_memories"}
      [] position = "reset_fences" -> {"device", "in_flight_fences"}
      [] position = "record" ->
            {"device", "command_buffers", "swapchain_framebuffers", "descriptor_sets",
             "render_pass", "graphics_pipeline", "pipeline_layout", "vertex_buffer",
             "index_buffer"}
      [] position = "submit" ->
            {"device", "command_buffers", "image_available_semaphores",
             "render_finished_semaphores", "in_flight_fences"}
      [] position = "present" -> {"swapchain_khr", "render_finished_semaphores"}
      [] OTHER -> {}

TypeOK ==
    /\ current_frame \in Slots
    /\ image_index \in {NoImage} \cup (0 .. (MaxImages - 1))
    /\ frames \in 0 .. MaxFrames
    /\ Len(gpuQueue) <= MaxFrames

----------------------------------------------------------------------------
(* Frames in flight and the slot's fence.                                  *)

\* The submitted batches whose in-flight fence is not signaled.
InFlight == {k \in 1 .. Len(gpuQueue) : ~in_flight_fences[gpuQueue[k].slot]}

\* The acquire of frame f has not signaled its semaphore yet.
AcquirePending(f) ==
    \E k \in 1 .. Len(engineOps) : engineOps[k].kind = "acquire" /\ engineOps[k].frame = f

\* The present request of frame f is queued and has not passed its semaphore wait.
PresentPending(f) ==
    \E k \in 1 .. Len(engineOps) : engineOps[k].kind = "present" /\ engineOps[k].frame = f

\* C1: at most MAX_FRAMES_IN_FLIGHT frames are submitted with their in-flight
\* fence not yet signaled, in every reachable state of the frame loop.
C1_InFlightBounded == Cardinality(InFlight) <= MAX_FRAMES_IN_FLIGHT

\* C1 witness: both slots are in flight and draw_frame is blocked on the fence.
C1_Witness ==
    /\ pc = "draw_wait"
    /\ ~in_flight_fences[current_frame]
    /\ Cardinality(InFlight) = MAX_FRAMES_IN_FLIGHT

\* C2: when draw_frame resets and re-records the command buffer of the
\* current slot, no batch submitted with that command buffer is outstanding.
C2_RecordOnlyWhenIdle == pc = "record" => ~Outstanding(current_frame)

\* C2 witness: a slot that was submitted before is re-recorded while the
\* other slot's batch is still executing.
C2_Witness ==
    /\ pc = "record"
    /\ current_frame \in everSubmitted
    /\ gpuQueue # << >>

\* C3: when update_uniform_buffer writes the uniform buffer of image_index, no
\* outstanding batch reads the uniform buffer of that image index.
C3_UniformWriteExclusive ==
    pc = "update_ubo" =>
        \A k \in 1 .. Len(gpuQueue) : gpuQueue[k].image # image_index

\* C4: colour output of a batch begins only after the acquire of its image has
\* signaled image_available, and the presentation of a frame begins only after
\* its batch has completed (signaled render_finished).
C4_SemaphoreOrder ==
    \A k \in 1 .. Len(gpuQueue) :
        /\ gpuQueue[k].stage = "color" => ~AcquirePending(gpuQueue[k].frame)
        /\ ~gpuQueue[k].presenting

\* C4 witness: a submitted batch waits for an acquire that has not signaled
\* yet while its present request is already queued.
C4_Witness ==
    \E k \in 1 .. Len(gpuQueue) :
        /\ gpuQueue[k].stage = "pre"
        /\ AcquirePending(gpuQueue[k].frame)
        /\ PresentPending(gpuQueue[k].frame)

\* The control thread is between reset_fences and queue_submit for slot s, or
\* panicked on the failed queue_submit.
InResetWindow(s) == s = current_frame /\ pc \in {"record", "submit", "panic_submit"}

\* C5 as stated: in every reachable state a slot's fence is signaled exactly
\* when no work submitted with the slot is outstanding.
C5_FenceIffIdle == \A s \in Slots : in_flight_fences[s] <=> ~Outstanding(s)

\* C5 amended: the equivalence holds outside the window between reset_fences
\* and queue_submit; inside it the fence is unsignaled with nothing outstanding.
C5_FenceIffIdleOutsideWindow ==
    \A s \in Slots :
        IF InResetWindow(s)
        THEN ~in_flight_fences[s] /\ ~Outstanding(s)
        ELSE in_flight_fences[s] <=> ~Outstanding(s)

\* C5 witness: the current slot is inside the window while the other slot's
\* batch is outstanding.
C5_Witness ==
    /\ pc = "submit"
    /\ ~in_flight_fences[current_frame]
    /\ \E s \in Slots : s # current_frame /\ Outstanding(s) /\ ~in_flight_fences[s]

----------------------------------------------------------------------------
(* Out-of-date results and the recreation of the swapchain.                *)

\* The step in which draw_frame returns from the acquire: out of date.
ReturnsFromAcquire == pc = "acquire" /\ pc' = "loop"

\* The step in which draw_frame returns after queue_present.
ReturnsFromPresent == pc = "present" /\ pc' = "loop"

\* C6: an iteration whose acquire is out of date submits nothing, presents
\* nothing, leaves the slot's fence signaled (not reset), leaves current_frame
\* unchanged and returns RecreateSwapchain::Yes.
C6_OutOfDateAcquire ==
    [][ReturnsFromAcquire =>
          /\ gpuQueue' = gpuQueue
          /\ engineOps' = engineOps
          /\ in_flight_fences' = in_flight_fences
          /\ in_flight_fences'[current_frame]
          /\ current_frame' = current_frame
          /\ recreate_swapchain' = "Yes"]_vars

\* C6 witness: draw_frame has returned from an out-of-date acquire while the
\* other slot's batch is outstanding.
C6_Witness ==
    /\ pc = "loop"
    /\ lastResult = "AcquireOutOfDate"
    /\ recreate_swapchain = "Yes"
    /\ in_flight_fences[current_frame]
    /\ gpuQueue # << >>

\* C7: no acquire is issued while a recreation that draw_frame signaled has
\* not been performed.
C7_RecreateBeforeAcquire == pc = "acquire" => ~recreatePending

\* C7 witness: the acquire of the iteration that follows a recreation on the
\* flag path (the flag is still Yes, the recreation is done).
C7_Witness ==
    /\ pc = "acquire"
    /\ recreate_swapchain = "Yes"
    /\ ~recreatePending

C9_SlotCycle ==
    /\ current_frame \in Slots
    /\ (tracking /\ streak = MAX_FRAMES_IN_FLIGHT) =>
          /\ waits = [s \in Slots |-> 1]
          /\ resets = [s \in Slots |-> 1]
          /\ current_frame = 0

\* C9 witness: a streak of MAX_FRAMES_IN_FLIGHT iterations has just ended.
C9_Witness ==
    /\ pc = "loop"
    /\ tracking
    /\ streak = MAX_FRAMES_IN_FLIGHT
    /\ lastResult = "No"

\* C10: every iteration that submitted and presented advances current_frame by
\* one modulo MAX_FRAMES_IN_FLIGHT, whatever the present result.
C10_PresentAdvances ==
    [][ReturnsFromPresent =>
          current_frame' = (current_frame + 1) % MAX_FRAMES_IN_FLIGHT]_vars

----------------------------------------------------------------------------
(* The minimised window and the results of acquire and present.            *)

\* The test of App::run on window.inner_size().
ZeroArea(size) == size.width = 0 \/ size.height = 0

\* The control thread is inside draw_frame.
InDrawFrame ==
    pc \in {"draw_wait", "acquire", "update_ubo", "reset_fences", "record", "submit",
            "present"} \cup Panics

\* C11: recreate_swapchain is never invoked with a window size whose width or
\* height is zero, whatever the events are, a Resized(0,0) included.  At
\* pc = "recreate" window_size is the size recreate_swapchain was called with.
C11_RecreateNeverZeroArea == pc = "recreate" => ~ZeroArea(window_size)

\* C12: while the window is 0x0 neither draw_frame nor recreate_swapchain runs.
C12_IdleWhileMinimised ==
    window_size = [width |-> 0, height |-> 0] => (pc # "recreate" /\ ~InDrawFrame)

\* C13: an iteration in which acquire_next_image reported out-of-date or
\* suboptimal, or queue_present reported out-of-date or suboptimal, returns
\* RecreateSwapchain::Yes.
C13_StaleSurfaceRecreates ==
    [][(/\ pc \in {"acquire", "present"}
        /\ pc' = "loop"
        /\ (suboptimal \/ lastResult' \in {"AcquireOutOfDate", "PresentYes"}))
       => recreate_swapchain' = "Yes"]_vars

\* An error other than out-of-date/suboptimal came from acquire, submit or present.
Fatal == lastResult = "panic"

\* C14: after an error from acquire, submit or present other than
\* out-of-date/suboptimal the control thread stays where it panicked: no
\* further iteration, acquire, submission, present request or recreation.
C14_FatalIsFinal ==
    [][Fatal =>
          /\ pc \in Panics
          /\ pc' = pc
          /\ frames' = frames
          /\ Len(gpuQueue') <= Len(gpuQueue)
          /\ Len(engineOps') <= Len(engineOps)
          /\ swapchainVars' = swapchainVars]_vars

\* C14 witness: queue_present failed with the iteration's batch submitted.
C14_Witness ==
    /\ pc = "panic_present"
    /\ Fatal
    /\ Outstanding(current_frame)

\* C15: a process that failed in acquire, submit or present has waited for the
\* device to be idle and has run destroy_vulkan.
C15_TeardownOnFatal == pc \in Panics => (gpuQueue = << >> /\ destroyed # << >>)

----------------------------------------------------------------------------
(* Shutdown: CloseRequested, LoopDestroyed, destroy_vulkan.                *)

\* C30: after CloseRequested the loop reaches LoopDestroyed; stated for a
\* finite run: once ControlFlow::Exit is set the control thread is never
\* stopped in a panic, from which LoopDestroyed cannot follow (C14).
C30_CloseReachesLoopDestroyed == exiting => pc \notin Panics

\* What does hold of the shutdown: destroy_vulkan starts with the queue
\* drained, runs once, and no step of the control thread follows it.
ShutdownOrder ==
    [][/\ destroyed' # destroyed
          => (destroyed = << >> /\ pc = "destroy_wait" /\ gpuQueue = << >>)
       /\ pc = "destroyed"
          => (pc' = pc /\ destroyed' = destroyed /\ frames' = frames
              /\ Len(gpuQueue') <= Len(gpuQueue) /\ Len(engineOps') <= Len(engineOps)
              /\ swapchainVars' = swapchainVars)]_vars

----------------------------------------------------------------------------
(* Destruction: device idleness, the old swapchain, the order of teardown. *)

\* The step destroys objects: cleanup_swapchain in recreate_swapchain, or
\* destroy_vulkan.
DestroysObjects == (pc = "recreate" /\ pc' # "recreate") \/ destroyed' # destroyed

\* C16: every cleanup_swapchain and destroy_vulkan (recreation on the flag
\* path, recreation from Resized, LoopDestroyed) runs with no submitted batch
\* outstanding.
C16_DestroyOnlyWhenIdle == [][DestroysObjects => gpuQueue = << >>]_vars

\* C16 witness: recreate_swapchain, called from the Resized handler after both
\* slots were submitted, has returned with a swapchain of another size.
C16_Witness ==
    /\ pc = "loop"
    /\ ret = "loop"
    /\ imageCountChanged
    /\ everSubmitted = Slots
    /\ gpuQueue = << >>

Has(seq, x) == \E k \in 1 .. Len(seq) : seq[k] = x

IndexOf(seq, x) == CHOOSE k \in 1 .. Len(seq) : seq[k] = x

Reverse(seq) == [k \in 1 .. Len(seq) |-> seq[Len(seq) + 1 - k]]

\* C18: destroy_vulkan destroys every child of the logical device before the
\* device, the surface and the debug messenger after the device and before
\* the instance, and the instance last.
C18_ChildrenBeforeParents ==
    pc = "destroyed" =>
        /\ \A c \in {x \in DeviceChildren : ExplicitlyDestroyed(x)} :
              Has(destroyed, c) /\ IndexOf(destroyed, c) < IndexOf(destroyed, "device")
        /\ Has(destroyed, "surface")
        /\ \A x \in {"surface", "debug_messenger"} :
              Has(destroyed, x) =>
                  /\ IndexOf(destroyed, "device") < IndexOf(destroyed, x)
                  /\ IndexOf(destroyed, x) < IndexOf(destroyed, "instance")
        /\ destroyed[Len(destroyed)] = "instance"

\* C18 witness: teardown of a build with the debug messenger.
C18_Witness ==
    /\ pc = "destroyed"
    /\ Has(destroyed, "debug_messenger")
    /\ Has(destroyed, "swapchain_khr")

\* C19: teardown destroys the objects in the exact reverse of the order in
\* which App::new created them.
C19_ReverseOfCreation ==
    pc = "destroyed" =>
        \E v \in BOOLEAN :
            destroyed = Reverse(SelectSeq(AppNew(v), ExplicitlyDestroyed))

\* C20: after App::new and after every recreate_swapchain the image views,
\* the framebuffers, the uniform buffers, their memories and the descriptor
\* sets are as many as the swapchain images.
C20_CountsFollowImages ==
    /\ swapchain_image_views = swapchain_images
    /\ swapchain_framebuffers = swapchain_images
    /\ uniform_buffers = swapchain_images
    /\ uniform_buffer_memories = swapchain_images
    /\ descriptor_sets = swapchain_images

\* C20 witness: a recreation that changed the number of images has returned
\* to draw_frame.
C20_Witness ==
    /\ pc = "draw_wait"
    /\ imageCountChanged
    /\ swapchain_framebuffers = swapchain_images
    /\ descriptor_sets = swapchain_images

----------------------------------------------------------------------------
(* Recreation: the order of its calls, what it leaves alone, handles.      *)

\* The objects created (or replaced) by the calls, in order.
CreatedBy(cs) == SelectSeq(cs, LAMBDA c : c.op \in {"create", "replace"})

\* The objects built from the swapchain.
Dependents ==
    {"swapchain_image_views", "render_pass", "pipeline_layout", "graphics_pipeline",
     "swapchain_framebuffers", "uniform_buffers", "uniform_buffer_memories",
     "descriptor_pool", "descriptor_sets"}

\* The step is recreate_swapchain returning.
RecreationStep == pc = "recreate" /\ pc' # "recreate"

\* C31: recreate_swapchain builds swapchain, image views, render pass,
\* pipeline layout and pipeline, framebuffers, uniform buffers, descriptor
\* pool and descriptor sets in this order, each after the objects its creation
\* is given, and destroys all old dependents before it creates the swapchain.
C31_RebuildOrder ==
    calls # << >>
    => /\ [k \in 1 .. Len(CreatedBy(calls)) |-> CreatedBy(calls)[k].object]
            = << "swapchain_khr", "swapchain_image_views", "render_pass",
                 "pipeline_layout", "graphics_pipeline", "swapchain_framebuffers",
                 "uniform_buffers", "uniform_buffer_memories", "descriptor_pool",
                 "descriptor_sets" >>
       /\ \A k \in 1 .. Len(calls) :
             calls[k].op = "create"
             => \A object \in calls[k].uses \cap (Dependents \cup {"swapchain_khr"}) :
                   \E j \in 1 .. (k - 1) :
                       calls[j].op \in {"create", "replace"} /\ calls[j].object = object
       /\ \A object \in Dependents :
             \E j \in 1 .. Len(calls) :
                 /\ calls[j].op = "destroy"
                 /\ object \in Released(calls[j].object)
                 /\ \A k \in 1 .. Len(calls) :
                       calls[k].op \in {"create", "replace"} => j < k

\* recreate_swapchain, called for the flag, has returned into draw_frame.
C31_Witness ==
    /\ calls # << >>
    /\ pc = "draw_wait"
    /\ ret = "draw"
    /\ everSubmitted # {}

\* What recreate_swapchain is to leave alone.
Persistent ==
    {"command_buffers", "image_available_semaphores", "render_finished_semaphores",
     "in_flight_fences", "command_pool", "transient_command_pool", "vertex_buffer",
     "vertex_buffer_memory", "index_buffer", "index_buffer_memory",
     "descriptor_set_layout", "device"}

\* C32: recreate_swapchain neither destroys nor replaces the command buffers,
\* semaphores and fences of the frame slots, the command pools, the vertex and
\* index buffers and their memory, the descriptor set layout and the device,
\* and leaves current_frame and the state of the fences and semaphores as they
\* are; these objects are destroyed in destroy_vulkan only.
C32_PersistentObjects ==
    [][/\ RecreationStep
          => /\ \A k \in 1 .. Len(calls') :
                   \A object \in Persistent :
                       /\ calls'[k].object # object
                       /\ object \notin Released(calls'[k].object)
             /\ Persistent \subseteq alive'
             /\ current_frame' = current_frame
             /\ syncVars' = syncVars
             /\ destroyed' = destroyed
       /\ \A object \in Persistent :
             (object \in alive /\ object \notin alive')
             => (pc = "destroy_wait" /\ pc' = "destroyed")]_vars

\* A recreation has returned with slot 1 current, then the application was
\* closed and destroy_vulkan has destroyed the persistent objects.
C32_Witness ==
    /\ pc = "destroyed"
    /\ calls # << >>
    /\ current_frame = 1
    /\ Persistent \cap alive = {}

\* draw_frame holds an acquired image index it indexes the Vecs with.
HoldsImage == pc \in {"update_ubo", "reset_fences", "record", "submit", "present"}

\* C35: the acquired image_index is a valid index into swapchain_framebuffers,
\* uniform_buffer_memories and descriptor_sets of the current swapchain,
\* whatever recreations changed the number of images before.
C35_ImageIndexValid ==
    HoldsImage
    => /\ 0 <= image_index
       /\ image_index < swapchain_framebuffers
       /\ image_index < uniform_buffer_memories
       /\ image_index < descriptor_sets
       /\ swapchain_framebuffers = uniform_buffer_memories
       /\ uniform_buffer_memories = descriptor_sets

\* The last image of a swapchain rebuilt for the flag is written and drawn to.
C35_Witness ==
    /\ pc = "record"
    /\ ret = "draw"
    /\ image_index = MaxImages - 1
    /\ descriptor_sets = MaxImages

\* Every call uses live handles only and destroys or replaces a live handle.
RECURSIVE Sound(_, _)
Sound(cs, handles) ==
    \/ cs = << >>
    \/ /\ Head(cs).uses \subseteq handles
       /\ Head(cs).op \in {"destroy", "replace"} => Head(cs).object \in handles
       /\ Sound(Tail(cs), LiveAfter(<< Head(cs) >>, handles))

\* C36: no handle is destroyed twice and no destroyed handle is used: the
\* calls of draw_frame are given live handles, and the calls of
\* recreate_swapchain (cleanup_swapchain included) and of destroy_vulkan use,
\* destroy and replace live handles only.
C36_HandlesLive ==
    [][/\ Uses(pc) \subseteq alive
       /\ Uses(pc') \subseteq alive'
       /\ RecreationStep => Sound(calls', alive)
       /\ destroyed' # destroyed => Sound(Destroys(destroyed'), alive)]_vars

\* Frames were drawn, the swapchain was recreated for the flag and the
\* application was closed: every object of the device is destroyed.
C36_Witness ==
    /\ pc = "destroyed"
    /\ ret = "draw"
    /\ everSubmitted = Slots
    /\ alive \cap (DeviceChildren \cup {"device"}) = {}

----------------------------------------------------------------------------
(* The calls of an iteration; the recreate flag.                           *)

\* The iteration that acquired the last image is over: draw_frame has
\* returned or panicked.
IterationOver == frames > 0 /\ ~HoldsImage

\* The acquire, the queue_submit and the queue_present of an iteration use
\* the semaphores of current_frame and the acquired image_index, and the
\* image-available semaphore has no pending signal when it is given to
\* acquire_next_image.
IterationCalls ==
    /\ (pc = "acquire" /\ pc' = "update_ubo")
       => /\ ~image_available_semaphores[current_frame]
          /\ \A k \in 1 .. Len(engineOps) :
                engineOps[k].kind = "acquire" => engineOps[k].slot # current_frame
          /\ \A k \in 1 .. Len(gpuQueue) :
                gpuQueue[k].slot = current_frame => gpuQueue[k].stage # "pre"
    /\ (pc = "submit" /\ pc' = "present")
       => /\ Len(gpuQueue') = Len(gpuQueue) + 1
          /\ gpuQueue'[Len(gpuQueue')] =
                [frame |-> frames, slot |-> current_frame, image |-> image_index,
                 stage |-> "pre", presenting |-> FALSE]
    /\ (pc = "present" /\ pc' = "loop")
       => /\ Len(engineOps') = Len(engineOps) + 1
          /\ engineOps'[Len(engineOps')] =
                [kind |-> "present", frame |-> frames, slot |-> current_frame,
                 image |-> image_index, cur |-> TRUE]
    /\ submits' <= 1
    /\ presents' <= 1

C38_WaitReturns ==
    /\ []((pc = "draw_wait" /\ current_frame \notin everSubmitted)
           => in_flight_fences[current_frame])
    /\ (pc = "draw_wait") ~> (pc = "acquire")

\* wait_for_fences has returned in the draw_frame that follows an early
\* return for an out-of-date acquire and the recreation it asked for, with
\* earlier submissions of the slot.
C38_Witness ==
    /\ pc = "acquire"
    /\ ret = "draw"
    /\ lastResult = "AcquireOutOfDate"
    /\ current_frame \in everSubmitted
    /\ waits[current_frame] > 0

\* C39: with the flag Yes and a window of zero width or height a tick of
\* MainEventsCleared calls neither recreate_swapchain nor draw_frame and the
\* flag stays Yes; with a nonzero size the tick calls recreate_swapchain, once,
\* and then draw_frame; the flag is only given up for the result of a
\* draw_frame that ran after a recreation.
C39_RecreateRequestKept ==
    [][/\ (pc = "loop" /\ recreate_swapchain = "Yes")
          => /\ pc' # "draw_wait"
             /\ recreate_swapchain' = "Yes"
             /\ ZeroArea(window_size) => ~(pc' = "recreate" /\ ret' = "draw")
       /\ (pc = "recreate" /\ ret = "draw")
          => /\ pc' \in {"recreate", "draw_wait"}
             /\ recreate_swapchain' = recreate_swapchain
             /\ pc' = "draw_wait" => (calls' = RecreateSwapchainCalls /\ ~recreatePending')
       /\ (recreate_swapchain = "Yes" /\ recreate_swapchain' # "Yes")
          => (pc = "present" /\ ~recreatePending)]_vars

\* The flag is Yes, the recreation is still owed and the window has no area:
\* the ticks leave this state as it is.
C39_Witness ==
    /\ pc = "loop"
    /\ recreate_swapchain = "Yes"
    /\ recreatePending
    /\ ZeroArea(window_size)

----------------------------------------------------------------------------
(* App::new: the functions that choose the swapchain's extent and image    *)
(* count, the physical device and its queue families, and that check the   *)
(* instance extensions.  Each action applies one of them to what Vulkan    *)
(* reports; call holds the function and its inputs, returned its result.   *)

\* std::u32::MAX, the value of current_extent that stands for "undefined";
\* scaled to the largest integer of the model (it is only compared).
U32_MAX == 2147483647

\* Largest width or height of the surface's extents.
MaxDim == 2

\* Largest min_image_count of the surface.
MaxMinImages == 2

Extents == [width : 0 .. MaxDim, height : 0 .. MaxDim]

UndefinedExtent == [width |-> U32_MAX, height |-> U32_MAX]

\* The window sizes given to create_swapchain_and_images: below, inside and
\* above the surface's extents.
ProbeSizes == [width : 0 .. (MaxDim + 1), height : 0 .. (MaxDim + 1)]

Within(e, lo, hi) ==
    /\ lo.width <= e.width /\ e.width <= hi.width
    /\ lo.height <= e.height /\ e.height <= hi.height

\* vk::SurfaceCapabilitiesKHR as a conformant surface reports it:
\* minImageExtent <= maxImageExtent, currentExtent undefined (both components
\* the sentinel) or between them, maxImageCount 0 or >= minImageCount.
SurfaceCapabilities ==
    {c \in [current_extent : Extents \cup {UndefinedExtent},
            min_image_extent : Extents, max_image_extent : Extents,
            min_image_count : 1 .. MaxMinImages,
            max_image_count : 0 .. (MaxMinImages + 1)] :
        /\ c.min_image_extent.width <= c.max_image_extent.width
        /\ c.min_image_extent.height <= c.max_image_extent.height
        /\ (c.current_extent # UndefinedExtent =>
                Within(c.current_extent, c.min_image_extent, c.max_image_extent))
        /\ (c.max_image_count = 0 \/ c.max_image_count >= c.min_image_count)}

\* u32::clamp(min, max)
Clamp(x, min, max) == IF x < min THEN min ELSE IF x > max THEN max ELSE x

\* choose_swapchain_extent as it would be without the clamp of the window size.
choose_swapchain_extent_NoClamp(capabilities, size) ==
    IF capabilities.current_extent.width # U32_MAX
    THEN capabilities.current_extent
    ELSE [width |-> size.width, height |-> size.height]

\* SupportDetails::choose_swapchain_extent
choose_swapchain_extent(capabilities, size) ==
    IF capabilities.current_extent.width # U32_MAX
    THEN capabilities.current_extent
    ELSE [width |-> Clamp(size.width, capabilities.min_image_extent.width,
                          capabilities.max_image_extent.width),
          height |-> Clamp(size.height, capabilities.min_image_extent.height,
                           capabilities.max_image_extent.height)]

\* image_count as it would be with max_image_count = 0 taken for a limit.
image_count_ZeroIsLimit(capabilities) ==
    LET preferred_num_images == capabilities.min_image_count + 1
        max_num_images == capabilities.max_image_count
    IN  IF preferred_num_images > max_num_images
        THEN max_num_images
        ELSE preferred_num_images

\* create_swapchain_and_images: let image_count = { .. }
image_count(capabilities) ==
    LET preferred_num_images == capabilities.min_image_count + 1
        max_num_images == capabilities.max_image_count
        unlimited_max_num_images == max_num_images = 0
    IN  IF ~unlimited_max_num_images /\ preferred_num_images > max_num_images
        THEN max_num_images
        ELSE preferred_num_images

\* create_swapchain_and_images up to the SwapchainCreateInfoKHR: the extent
\* and the min_image_count it asks for.
CreateSwapchainAndImages ==
    /\ call.fn = "none"
    /\ \E capabilities \in SurfaceCapabilities, size \in ProbeSizes :
          /\ call' = [fn |-> "create_swapchain_and_images",
                      capabilities |-> capabilities, window_size |-> size]
          /\ returned' = [extent |-> choose_swapchain_extent(capabilities, size),
                          image_count |-> image_count(capabilities)]
    /\ UNCHANGED loopVars

C23_ImageCount ==
    call.fn = "create_swapchain_and_images" =>
        LET c == call.capabilities
        IN  /\ (c.max_image_count # 0 /\ c.min_image_count + 1 > c.max_image_count)
                    => returned.image_count = c.max_image_count
            /\ (c.max_image_count = 0 \/ c.min_image_count + 1 <= c.max_image_count)
                    => returned.image_count = c.min_image_count + 1

\* C23 witness: the surface allows no more than its minimum.
C23_Witness ==
    /\ call.fn = "create_swapchain_and_images"
    /\ call.capabilities.max_image_count = call.capabilities.min_image_count
    /\ returned.image_count = call.capabilities.max_image_count

----------------------------------------------------------------------------
(* The physical device and its queue families.                             *)

\* Largest number of queue families of a device.
MaxFamilies == 2

\* Largest number of physical devices enumerated.
MaxDevices == 2

\* Option::None of graphics_family / present_family.
NoFamily == -1

\* A queue family: queue_flags contains GRAPHICS; the surface is supported.
QueueFamilies == [graphics : BOOLEAN, present : BOOLEAN]

FamilyLists == UNION {[1 .. n -> QueueFamilies] : n \in 0 .. MaxFamilies}

\* QueueFamilyIndices::new
QueueFamilyIndicesNew == [graphics_family |-> NoFamily, present_family |-> NoFamily]

\* QueueFamilyIndices::is_complete
is_complete(indices) ==
    indices.graphics_family # NoFamily /\ indices.present_family # NoFamily

\* The loop of find_queue_families from the family at position k on.
RECURSIVE FindFrom(_, _, _)
FindFrom(queue_families, k, indices) ==
    IF k > Len(queue_families)
    THEN indices
    ELSE LET index == k - 1
             graphics_family == IF queue_families[k].graphics
                                THEN index
                                ELSE indices.graphics_family
             present_family == IF queue_families[k].present
                                  /\ indices.present_family = NoFamily
                               THEN index
                               ELSE indices.present_family
             next == [graphics_family |-> graphics_family,
                      present_family |-> present_family]
         IN  IF is_complete(next)
             THEN next
             ELSE FindFrom(queue_families, k + 1, next)

\* The loop as it would be if present_family were overwritten like
\* graphics_family.
RECURSIVE FindFrom_PresentOverwritten(_, _, _)
FindFrom_PresentOverwritten(queue_families, k, indices) ==
    IF k > Len(queue_families)
    THEN indices
    ELSE LET index == k - 1
             graphics_family == IF queue_families[k].graphics
                                THEN index
                                ELSE indices.graphics_family
             present_family == IF queue_families[k].present
                               THEN index
                               ELSE indices.present_family
             next == [graphics_family |-> graphics_family,
                      present_family |-> present_family]
         IN  IF is_complete(next)
             THEN next
             ELSE FindFrom_PresentOverwritten(queue_families, k + 1, next)

\* The loop as it would be without the break.
RECURSIVE FindFrom_NoBreak(_, _, _)
FindFrom_NoBreak(queue_families, k, indices) ==
    IF k > Len(queue_families)
    THEN indices
    ELSE LET index == k - 1
             graphics_family == IF queue_families[k].graphics
                                THEN index
                                ELSE indices.graphics_family
             present_family == IF queue_families[k].present
                                  /\ indices.present_family = NoFamily
                               THEN index
                               ELSE indices.present_family
         IN  FindFrom_NoBreak(queue_families, k + 1,
                 [graphics_family |-> graphics_family,
                  present_family |-> present_family])

find_queue_families_NoBreak(queue_families) ==
    FindFrom_NoBreak(queue_families, 1, QueueFamilyIndicesNew)

find_queue_families_PresentOverwritten(queue_families) ==
    FindFrom_PresentOverwritten(queue_families, 1, QueueFamilyIndicesNew)

\* QueueFamilyIndices::find_queue_families
find_queue_families(queue_families) ==
    FindFrom(queue_families, 1, QueueFamilyIndicesNew)

\* extensions::get_required_device_extensions
get_required_device_extensions == << "VK_KHR_swapchain" >>

\* extensions::check_device_extension_support
check_device_extension_support(extension_properties) ==
    \A k \in 1 .. Len(get_required_device_extensions) :
        get_required_device_extensions[k] \in extension_properties

DeviceTypes == {"DISCRETE_GPU", "INTEGRATED_GPU", "CPU"}

\* limits.max_image_dimension2_d of the devices of the model.
MaxImageDimensions == {2048, 4096}

\* What Vulkan reports of a physical device: the geometry_shader feature, the
\* queue families, the names of the device extensions, the numbers of surface
\* formats and present modes, the device type and max_image_dimension2_d.
PhysicalDevices ==
    [geometry_shader : BOOLEAN, queue_families : FamilyLists,
     extension_properties : SUBSET {"VK_KHR_swapchain", "VK_KHR_maintenance1"},
     formats : 0 .. 1, present_modes : 0 .. 1,
     device_type : DeviceTypes, max_image_dimension2_d : MaxImageDimensions]

\* (0, None)
Rejected == [score |-> 0, some |-> FALSE, indices |-> QueueFamilyIndicesNew]

\* rate_physical_device as it would be without the bonus of the device type.
rate_physical_device_NoTypeBonus(device) ==
    IF ~device.geometry_shader
    THEN Rejected
    ELSE LET indices == find_queue_families(device.queue_families)
         IN  IF ~is_complete(indices)
             THEN Rejected
             ELSE IF ~check_device_extension_support(device.extension_properties)
             THEN Rejected
             ELSE IF device.formats = 0 \/ device.present_modes = 0
             THEN Rejected
             ELSE [score |-> device.max_image_dimension2_d,
                   some |-> TRUE, indices |-> indices]

\* rate_physical_device as it would be without the test of the present modes.
rate_physical_device_NoPresentModes(device) ==
    IF ~device.geometry_shader
    THEN Rejected
    ELSE LET indices == find_queue_families(device.queue_families)
         IN  IF ~is_complete(indices)
             THEN Rejected
             ELSE IF ~check_device_extension_support(device.extension_properties)
             THEN Rejected
             ELSE IF device.formats = 0
             THEN Rejected
             ELSE [score |-> (IF device.device_type = "DISCRETE_GPU" THEN 1000
                              ELSE IF device.device_type = "INTEGRATED_GPU" THEN 100
                              ELSE 0) + device.max_image_dimension2_d,
                   some |-> TRUE, indices |-> indices]

\* vulkan::rate_physical_device: (score, Option<QueueFamilyIndices>)
rate_physical_device(device) ==
    IF ~device.geometry_shader
    THEN Rejected
    ELSE LET indices == find_queue_families(device.queue_families)
         IN  IF ~is_complete(indices)
             THEN Rejected
             ELSE IF ~check_device_extension_support(device.extension_properties)
             THEN Rejected
             ELSE IF device.formats = 0 \/ device.present_modes = 0
             THEN Rejected
             ELSE [score |-> (IF device.device_type = "DISCRETE_GPU" THEN 1000
                              ELSE IF device.device_type = "INTEGRATED_GPU" THEN 100
                              ELSE 0) + device.max_image_dimension2_d,
                   some |-> TRUE, indices |-> indices]

\* The locals of select_physical_device before its loop.
SelectStart ==
    [best_device_idx |-> 0, max_score |-> 0, queue_family_indices |-> QueueFamilyIndicesNew]

\* The loop of select_physical_device from the device at position k on.
RECURSIVE SelectFrom(_, _, _)
SelectFrom(devices, k, best) ==
    IF k > Len(devices)
    THEN best
    ELSE LET rated == rate_physical_device(devices[k])
         IN  SelectFrom(devices, k + 1,
                 IF rated.score > best.max_score /\ rated.some
                 THEN [best_device_idx |-> k - 1, max_score |-> rated.score,
                       queue_family_indices |-> rated.indices]
                 ELSE best)

\* The loop as it would be with score >= max_score.
RECURSIVE SelectFrom_LastMax(_, _, _)
SelectFrom_LastMax(devices, k, best) ==
    IF k > Len(devices)
    THEN best
    ELSE LET rated == rate_physical_device(devices[k])
         IN  SelectFrom_LastMax(devices, k + 1,
                 IF rated.score >= best.max_score /\ rated.some
                 THEN [best_device_idx |-> k - 1, max_score |-> rated.score,
                       queue_family_indices |-> rated.indices]
                 ELSE best)

select_physical_device_LastMax(devices) ==
    LET best == SelectFrom_LastMax(devices, 1, SelectStart)
    IN  IF best.max_score > 0 /\ is_complete(best.queue_family_indices)
        THEN [panic |-> FALSE, best_device_idx |-> best.best_device_idx,
              max_score |-> best.max_score,
              queue_family_indices |-> best.queue_family_indices]
        ELSE [panic |-> TRUE]

\* select_physical_device as it would be without the test before
\* devices[best_device_idx].
select_physical_device_NoTest(devices) ==
    LET best == SelectFrom(devices, 1, SelectStart)
    IN  [panic |-> FALSE, best_device_idx |-> best.best_device_idx,
         max_score |-> best.max_score,
         queue_family_indices |-> best.queue_family_indices]

\* vulkan::select_physical_device: the index of the device it returns with
\* its queue family indices, or panic!("Failed to find a suitable device.")
select_physical_device(devices) ==
    LET best == SelectFrom(devices, 1, SelectStart)
    IN  IF best.max_score > 0 /\ is_complete(best.queue_family_indices)
        THEN [panic |-> FALSE, best_device_idx |-> best.best_device_idx,
              max_score |-> best.max_score,
              queue_family_indices |-> best.queue_family_indices]
        ELSE [panic |-> TRUE]

\* The devices enumerated for select_physical_device: they differ in the
\* geometry_shader feature, the type and max_image_dimension2_d.
EnumeratedDevices ==
    {d \in PhysicalDevices :
        /\ d.queue_families = << [graphics |-> TRUE, present |-> TRUE] >>
        /\ d.extension_properties = {"VK_KHR_swapchain"}
        /\ d.formats = 1
        /\ d.present_modes = 1}

Enumerations == UNION {[1 .. n -> EnumeratedDevices] : n \in 0 .. MaxDevices}

FindQueueFamilies ==
    /\ call.fn = "none"
    /\ \E queue_families \in FamilyLists :
          /\ call' = [fn |-> "find_queue_families", queue_families |-> queue_families]
          /\ returned' = find_queue_families(queue_families)
    /\ UNCHANGED loopVars

RatePhysicalDevice ==
    /\ call.fn = "none"
    /\ \E device \in PhysicalDevices :
          /\ call' = [fn |-> "rate_physical_device", device |-> device]
          /\ returned' = rate_physical_device(device)
    /\ UNCHANGED loopVars

SelectPhysicalDevice ==
    /\ call.fn = "none"
    /\ \E devices \in Enumerations :
          /\ call' = [fn |-> "select_physical_device", devices |-> devices]
          /\ returned' = select_physical_device(devices)
    /\ UNCHANGED loopVars

\* The rating of the k-th enumerated device.
Rating(devices, k) == rate_physical_device(devices[k]).score

\* The bonus of the device type.
TypeBonus(device) ==
    IF device.device_type = "DISCRETE_GPU" THEN 1000
    ELSE IF device.device_type = "INTEGRATED_GPU" THEN 100
    ELSE 0

\* Conditions (a) to (d): a graphics family, a present-capable family, the
\* required device extensions, a surface format and a present mode.
MeetsFour(device) ==
    /\ \E k \in 1 .. Len(device.queue_families) : device.queue_families[k].graphics
    /\ \E k \in 1 .. Len(device.queue_families) : device.queue_families[k].present
    /\ "VK_KHR_swapchain" \in device.extension_properties
    /\ device.formats >= 1
    /\ device.present_modes >= 1

\* C24: when some enumerated device has a nonzero rating,
\* select_physical_device returns a device whose rating is nonzero and the
\* maximum over the enumeration, and it is the first device of that rating.
C24_FirstMaximum ==
    (/\ call.fn = "select_physical_device"
     /\ \E k \in 1 .. Len(call.devices) : Rating(call.devices, k) > 0)
    => /\ ~returned.panic
       /\ LET best == returned.best_device_idx + 1
          IN  /\ best \in 1 .. Len(call.devices)
              /\ Rating(call.devices, best) > 0
              /\ returned.max_score = Rating(call.devices, best)
              /\ \A k \in 1 .. Len(call.devices) :
                    Rating(call.devices, k) <= Rating(call.devices, best)
              /\ \A k \in 1 .. (best - 1) :
                    Rating(call.devices, k) < Rating(call.devices, best)

\* Two devices of the same nonzero rating: the first is returned.
C24_Witness ==
    /\ call.fn = "select_physical_device"
    /\ Len(call.devices) = 2
    /\ Rating(call.devices, 1) > 0
    /\ Rating(call.devices, 1) = Rating(call.devices, 2)
    /\ ~returned.panic
    /\ returned.best_device_idx = 0

\* C25 as stated: rate_physical_device returns 0 exactly for the devices that
\* fail one of (a) to (d), and the type bonus plus max_image_dimension2_d for
\* every device that meets them.
C25_FourConditions ==
    call.fn = "rate_physical_device"
    => /\ (returned.score = 0) <=> ~MeetsFour(call.device)
       /\ MeetsFour(call.device)
          => returned.score = TypeBonus(call.device) + call.device.max_image_dimension2_d

\* C25 amended: rate_physical_device returns 0 exactly for the devices that
\* lack the geometry_shader feature or fail one of (a) to (d), and the type
\* bonus plus max_image_dimension2_d for every other device.
C25_FiveConditions ==
    call.fn = "rate_physical_device"
    => LET passes == call.device.geometry_shader /\ MeetsFour(call.device)
       IN  /\ (returned.score = 0) <=> ~passes
           /\ returned.some <=> passes
           /\ passes
              => returned.score = TypeBonus(call.device) + call.device.max_image_dimension2_d

\* An integrated device that passes is rated 100 + 4096.
C25_Witness ==
    /\ call.fn = "rate_physical_device"
    /\ call.device.geometry_shader
    /\ MeetsFour(call.device)
    /\ call.device.device_type = "INTEGRATED_GPU"
    /\ returned.score = 4196

\* A passing integrated device of max_image_dimension2_d 4096.
Integrated4096 ==
    [geometry_shader |-> TRUE,
     queue_families |-> << [graphics |-> TRUE, present |-> TRUE] >>,
     extension_properties |-> {"VK_KHR_swapchain"},
     formats |-> 1, present_modes |-> 1,
     device_type |-> "INTEGRATED_GPU", max_image_dimension2_d |-> 4096]

\* A passing discrete device of max_image_dimension2_d 2048.
Discrete2048 ==
    [geometry_shader |-> TRUE,
     queue_families |-> << [graphics |-> TRUE, present |-> TRUE] >>,
     extension_properties |-> {"VK_KHR_swapchain"},
     formats |-> 1, present_modes |-> 1,
     device_type |-> "DISCRETE_GPU", max_image_dimension2_d |-> 2048]

TwoDevices ==
    /\ call.fn = "select_physical_device"
    /\ call.devices \in {<< Integrated4096, Discrete2048 >>,
                          << Discrete2048, Integrated4096 >>}

\* C26 as stated: of a passing integrated device of metric 4096 and a passing
\* discrete device of metric 2048, the discrete one (3048) is selected.
C26_DiscreteSelected ==
    TwoDevices
    => /\ ~returned.panic
       /\ call.devices[returned.best_device_idx + 1] = Discrete2048
       /\ returned.max_score = 3048

\* C26 amended: of a passing integrated device of metric 4096 and a passing
\* discrete device of metric 2048, the integrated one (100 + 4096 = 4196) is
\* selected, in either enumeration order.
C26_IntegratedSelected ==
    TwoDevices
    => /\ ~returned.panic
       /\ call.devices[returned.best_device_idx + 1] = Integrated4096
       /\ returned.max_score = 4196

C26_Witness ==
    /\ call.fn = "select_physical_device"
    /\ call.devices = << Discrete2048, Integrated4096 >>
    /\ ~returned.panic
    /\ returned.best_device_idx = 1

\* C27: when no enumerated device has a rating above zero, also when none is
\* enumerated, select_physical_device panics and returns no device.
C27_NoSuitableDevice ==
    (/\ call.fn = "select_physical_device"
     /\ \A k \in 1 .. Len(call.devices) : Rating(call.devices, k) = 0)
    => returned = [panic |-> TRUE]

C27_Witness ==
    /\ call.fn = "select_physical_device"
    /\ call.devices = << >>
    /\ returned.panic

\* Some family supports both graphics and presentation.
HasCombinedFamily ==
    /\ call.fn = "find_queue_families"
    /\ \E k \in 1 .. Len(call.queue_families) :
          call.queue_families[k].graphics /\ call.queue_families[k].present

\* C28 as stated: when some family supports both graphics and presentation,
\* find_queue_families returns graphics_family = present_family, a family
\* that supports both.
C28_SameFamily ==
    HasCombinedFamily
    => /\ is_complete(returned)
       /\ returned.graphics_family = returned.present_family
       /\ call.queue_families[returned.graphics_family + 1].graphics
       /\ call.queue_families[returned.graphics_family + 1].present

\* C28 amended: when some family supports both graphics and presentation,
\* find_queue_families returns a graphics_family that supports graphics and
\* as present_family the first family that supports presentation; the two
\* may differ.
C28_CapableFamilies ==
    HasCombinedFamily
    => /\ is_complete(returned)
       /\ call.queue_families[returned.graphics_family + 1].graphics
       /\ call.queue_families[returned.present_family + 1].present
       /\ \A k \in 1 .. returned.present_family : ~call.queue_families[k].present

\* A present-only family before a combined one: two different indices.
C28_Witness ==
    /\ HasCombinedFamily
    /\ returned.graphics_family = 1
    /\ returned.present_family = 0

\* The positions of the families with graphics capability / presentation
\* support.
GraphicsFamilies(queue_families) ==
    {k \in 1 .. Len(queue_families) : queue_families[k].graphics}

PresentFamilies(queue_families) ==
    {k \in 1 .. Len(queue_families) : queue_families[k].present}

Lowest(S) == CHOOSE k \in S : \A j \in S : k <= j

Highest(S) == CHOOSE k \in S : \A j \in S : k >= j

\* C40: find_queue_families returns complete indices exactly when the device
\* has a graphics-capable and a present-capable family; present_family, when
\* set, is the lowest-indexed present-capable family, graphics_family a
\* graphics-capable family, and the scan stops at the first family at which
\* both are set: graphics_family is the last graphics-capable family up to
\* that one.
C40_CompleteIndices ==
    call.fn = "find_queue_families"
    => LET G == GraphicsFamilies(call.queue_families)
           P == PresentFamilies(call.queue_families)
           stop == IF Lowest(G) >= Lowest(P) THEN Lowest(G) ELSE Lowest(P)
       IN  /\ is_complete(returned) <=> (G # {} /\ P # {})
           /\ (returned.present_family = NoFamily) <=> (P = {})
           /\ (returned.graphics_family = NoFamily) <=> (G = {})
           /\ P # {} => returned.present_family + 1 = Lowest(P)
           /\ G # {} => returned.graphics_family + 1 \in G
           /\ (G # {} /\ P # {})
              => returned.graphics_family + 1 = Highest({k \in G : k <= stop})

\* A combined family before a graphics-only one: the scan stopped at the
\* first.
C40_Witness ==
    /\ call.fn = "find_queue_families"
    /\ call.queue_families = << [graphics |-> TRUE, present |-> TRUE],
                                [graphics |-> TRUE, present |-> FALSE] >>
    /\ returned = [graphics_family |-> 0, present_family |-> 0]

----------------------------------------------------------------------------
(* The instance extensions and validation layers.  A String is the         *)
(* sequence of the pieces of text pushed onto it; push_str is \o.          *)

\* Largest number of required instance extensions.
MaxRequired == 2

\* The names of the instance extensions of the model.
ExtensionNames ==
    {<< "VK_KHR_surface" >>, << "VK_KHR_xcb_surface" >>, << "VK_EXT_debug_utils" >>}

\* The names of the layers of the model.
LayerNames ==
    {<< "VK_LAYER_KHRONOS_validation" >>, << "VK_LAYER_LUNARG_api_dump" >>}

RequiredLists == UNION {[1 .. n -> ExtensionNames] : n \in 0 .. MaxRequired}

\* validation::REQUIRED_VALIDATION_LAYERS
REQUIRED_VALIDATION_LAYERS == << << "VK_LAYER_KHRONOS_validation" >> >>

\* validation::get_validation_layer_names_as_ptrs
get_validation_layer_names_as_ptrs(enable_validation_layers) ==
    IF enable_validation_layers THEN REQUIRED_VALIDATION_LAYERS ELSE << >>

\* The loop over the required names from position k on, missing being the
\* String built so far.
RECURSIVE MissingFrom(_, _, _, _)
MissingFrom(required, available, k, missing) ==
    IF k > Len(required)
    THEN missing
    ELSE MissingFrom(required, available, k + 1,
             IF required[k] \notin available
             THEN (IF missing # << >> THEN missing \o << ", " >> ELSE missing)
                  \o required[k]
             ELSE missing)

\* The loop as it would be if the separator were pushed before every name.
RECURSIVE MissingFrom_AlwaysSeparator(_, _, _, _)
MissingFrom_AlwaysSeparator(required, available, k, missing) ==
    IF k > Len(required)
    THEN missing
    ELSE MissingFrom_AlwaysSeparator(required, available, k + 1,
             IF required[k] \notin available
             THEN missing \o << ", " >> \o required[k]
             ELSE missing)

check_required_extensions_AlwaysSeparator(required_extensions, available_extensions) ==
    LET missing_extensions ==
            MissingFrom_AlwaysSeparator(required_extensions, available_extensions, 1, << >>)
    IN  IF missing_extensions = << >>
        THEN [ok |-> TRUE]
        ELSE [ok |-> FALSE, err |-> missing_extensions]

\* extensions::check_required_extensions: Ok(()) or Err(missing_extensions)
check_required_extensions(required_extensions, available_extensions) ==
    LET missing_extensions ==
            MissingFrom(required_extensions, available_extensions, 1, << >>)
    IN  IF missing_extensions = << >>
        THEN [ok |-> TRUE]
        ELSE [ok |-> FALSE, err |-> missing_extensions]

\* validation::check_validation_layer_support: Ok(()) or Err(missing_layers)
check_validation_layer_support(available_validation_layers, enable_validation_layers) ==
    LET missing_layers ==
            MissingFrom(get_validation_layer_names_as_ptrs(enable_validation_layers),
                        available_validation_layers, 1, << >>)
    IN  IF missing_layers = << >>
        THEN [ok |-> TRUE]
        ELSE [ok |-> FALSE, err |-> missing_layers]

\* vulkan::create_instance up to the creation of the instance: the panic
\* message, or no panic.
create_instance(required_extensions, available_extensions, available_validation_layers, enable_validation_layers) ==
    LET extensions == check_required_extensions(required_extensions, available_extensions)
        layers == check_validation_layer_support(available_validation_layers,
                                                 enable_validation_layers)
    IN  IF ~extensions.ok
        THEN [panic |-> TRUE, message |-> << "Missing extensions: " >> \o extensions.err]
        ELSE IF enable_validation_layers /\ ~layers.ok
        THEN [panic |-> TRUE, message |-> << "Missing validation layers: " >> \o layers.err]
        ELSE [panic |-> FALSE]

CheckRequiredExtensions ==
    /\ call.fn = "none"
    /\ \E required_extensions \in RequiredLists,
          available_extensions \in SUBSET ExtensionNames :
          /\ call' = [fn |-> "check_required_extensions",
                      required |-> required_extensions,
                      available |-> available_extensions]
          /\ returned' = check_required_extensions(required_extensions, available_extensions)
    /\ UNCHANGED loopVars

CheckValidationLayerSupport ==
    /\ call.fn = "none"
    /\ \E available_validation_layers \in SUBSET LayerNames :
          /\ call' = [fn |-> "check_validation_layer_support",
                      required |-> get_validation_layer_names_as_ptrs(TRUE),
                      available |-> available_validation_layers]
          /\ returned' = check_validation_layer_support(available_validation_layers, TRUE)
    /\ UNCHANGED loopVars

CreateInstance ==
    /\ call.fn = "none"
    /\ \E required_extensions \in RequiredLists,
          available_extensions \in SUBSET ExtensionNames,
          available_validation_layers \in SUBSET LayerNames,
          enable_validation_layers \in BOOLEAN :
          /\ call' = [fn |-> "create_instance",
                      required |-> required_extensions,
                      available |-> available_extensions,
                      available_layers |-> available_validation_layers,
                      enable_validation_layers |-> enable_validation_layers]
          /\ returned' = create_instance(required_extensions, available_extensions,
                                         available_validation_layers,
                                         enable_validation_layers)
    /\ UNCHANGED loopVars

\* The required names that are not available, in the order of the list.
MissingNames(required, available) ==
    SelectSeq(required, LAMBDA name : name \notin available)

\* The names joined by ", ".
RECURSIVE Joined(_)
Joined(names) ==
    IF names = << >> THEN << >>
    ELSE IF Len(names) = 1 THEN names[1]
    ELSE names[1] \o << ", " >> \o Joined(Tail(names))

\* C29: check_required_extensions and check_validation_layer_support return
\* Ok exactly when every required name is available, and otherwise one
\* message made of the missing required names, in the order of the required
\* list, joined by ", "; create_instance panics with that message.
C29_MissingNamesReported ==
    /\ call.fn \in {"check_required_extensions", "check_validation_layer_support"}
       => /\ returned.ok <=> \A k \in 1 .. Len(call.required) :
                                call.required[k] \in call.available
          /\ ~returned.ok
             => returned.err = Joined(MissingNames(call.required, call.available))
    /\ call.fn = "create_instance"
       => LET extensions == MissingNames(call.required, call.available)
              layers == MissingNames(REQUIRED_VALIDATION_LAYERS, call.available_layers)
          IN  /\ extensions # << >>
                 => /\ returned.panic
                    /\ returned.message = << "Missing extensions: " >> \o Joined(extensions)
              /\ (extensions = << >> /\ call.enable_validation_layers /\ layers # << >>)
                 => /\ returned.panic
                    /\ returned.message
                          = << "Missing validation layers: " >> \o Joined(layers)
              /\ (extensions = << >> /\ (call.enable_validation_layers => layers = << >>))
                 => ~returned.panic

\* Two required extensions are missing and one is reported after the other.
C29_Witness ==
    /\ call.fn = "check_required_extensions"
    /\ call.required = << << "VK_KHR_xcb_surface" >>, << "VK_KHR_surface" >> >>
    /\ call.available = {<< "VK_EXT_debug_utils" >>}
    /\ returned = [ok |-> FALSE,
                   err |-> << "VK_KHR_xcb_surface", ", ", "VK_KHR_surface" >>]

----------------------------------------------------------------------------
(* The surface format of the swapchain.                                    *)

\* Largest number of surface formats a surface reports.
MaxFormats == 3

\* vk::SurfaceFormatKHR of the model.
SurfaceFormats ==
    [format : {"B8G8R8A8_SRGB", "B8G8R8A8_UNORM"},
     color_space : {"SRGB_NONLINEAR", "EXTENDED_SRGB_LINEAR"}]

FormatLists == UNION {[1 .. n -> SurfaceFormats] : n \in 0 .. MaxFormats}

\* The closure of find in choose_swapchain_surface_format.
IsPreferredFormat(format) ==
    format.format = "B8G8R8A8_SRGB" /\ format.color_space = "SRGB_NONLINEAR"

\* Iterator::find from position k on: the position of the first format the
\* closure accepts, 0 for None.
RECURSIVE FindPreferredFrom(_, _)
FindPreferredFrom(available_formats, k) ==
    IF k > Len(available_formats) THEN 0
    ELSE IF IsPreferredFormat(available_formats[k]) THEN k
    ELSE FindPreferredFrom(available_formats, k + 1)

\* choose_swapchain_surface_format as it would be if it took the first format.
choose_swapchain_surface_format_First(available_formats) ==
    IF available_formats = << >>
    THEN [panic |-> TRUE]
    ELSE [panic |-> FALSE, surface_format |-> available_formats[1]]

\* SupportDetails::choose_swapchain_surface_format; the argument of unwrap_or,
\* &available_formats[0], is evaluated before find is looked at and panics on
\* an empty slice.
choose_swapchain_surface_format(available_formats) ==
    IF available_formats = << >>
    THEN [panic |-> TRUE]
    ELSE LET found == FindPreferredFrom(available_formats, 1)
         IN  [panic |-> FALSE,
              surface_format |-> IF found # 0 THEN available_formats[found]
                                 ELSE available_formats[1]]

ChooseSwapchainSurfaceFormat ==
    /\ call.fn = "none"
    /\ \E available_formats \in FormatLists :
          /\ call' = [fn |-> "choose_swapchain_surface_format",
                      available_formats |-> available_formats]
          /\ returned' = choose_swapchain_surface_format(available_formats)
    /\ UNCHANGED loopVars

\* C34: for a non-empty list of available formats
\* choose_swapchain_surface_format returns the B8G8R8A8_SRGB / SRGB_NONLINEAR
\* entry when the list has it at any position and the first entry otherwise;
\* the result is a member of the list.
C34_PreferredOrFirst ==
    (call.fn = "choose_swapchain_surface_format" /\ call.available_formats # << >>)
    => LET formats == call.available_formats
           has == \E k \in 1 .. Len(formats) :
                     formats[k] = [format |-> "B8G8R8A8_SRGB",
                                   color_space |-> "SRGB_NONLINEAR"]
       IN  /\ ~returned.panic
           /\ has => returned.surface_format = [format |-> "B8G8R8A8_SRGB",
                                                color_space |-> "SRGB_NONLINEAR"]
           /\ ~has => returned.surface_format = formats[1]
           /\ \E k \in 1 .. Len(formats) : returned.surface_format = formats[k]

\* The preferred format is the last of three and is returned.
C34_Witness ==
    /\ call.fn = "choose_swapchain_surface_format"
    /\ Len(call.available_formats) = 3
    /\ ~IsPreferredFormat(call.available_formats[1])
    /\ ~IsPreferredFormat(call.available_formats[2])
    /\ IsPreferredFormat(call.available_formats[3])
    /\ returned.surface_format = call.available_formats[3]

----------------------------------------------------------------------------
(* The upload of the vertex and index data to device-local buffers.  A      *)
(* function is the sequence of the Vulkan calls it makes; the upload is     *)
(* run call by call while the transfer queue executes the submitted copy.   *)

Call(fn, object) == [fn |-> fn, object |-> object]

\* vulkan::create_buffer: the buffer, its memory, the binding.
create_buffer(buffer, buffer_memory) ==
    << Call("create_buffer", buffer), Call("allocate_memory", buffer_memory),
       Call("bind_buffer_memory", buffer) >>

\* copy_buffer as it would be without queue_wait_idle.
copy_buffer_NoWaitIdle(src, dst) ==
    << Call("allocate_command_buffers", "command_buffer"),
       Call("begin_command_buffer", "command_buffer"),
       Call("cmd_copy_buffer", dst),
       Call("end_command_buffer", "command_buffer"),
       Call("queue_submit", "command_buffer"),
       Call("free_command_buffers", "command_buffer") >>

\* vulkan::copy_buffer
copy_buffer(src, dst) ==
    << Call("allocate_command_buffers", "command_buffer"),
       Call("begin_command_buffer", "command_buffer"),
       Call("cmd_copy_buffer", dst),
       Call("end_command_buffer", "command_buffer"),
       Call("queue_submit", "command_buffer"),
       Call("queue_wait_idle", "transfer_queue"),
       Call("free_command_buffers", "command_buffer") >>

\* vulkan::create_device_local_buffer_with_data
create_device_local_buffer_with_data ==
    create_buffer("staging_buffer", "staging_buffer_memory")
    \o << Call("map_memory", "staging_buffer_memory"),
          Call("copy_from_slice", "staging_buffer_memory"),
          Call("unmap_memory", "staging_buffer_memory") >>
    \o create_buffer("buffer", "buffer_memory")
    \o copy_buffer("staging_buffer", "buffer")
    \o << Call("destroy_buffer", "staging_buffer"),
          Call("free_memory", "staging_buffer_memory") >>

\* The upload before its first call: nothing created, nothing submitted.
UploadStart ==
    [done |-> 0, created |-> {}, live |-> {}, mapped |-> FALSE, written |-> FALSE,
     recorded |-> FALSE, submitted |-> FALSE, copied |-> FALSE, waited |-> FALSE]

\* The call can return: queue_wait_idle returns when the queue has no
\* unfinished work.
Returns(c, upload) ==
    c.fn = "queue_wait_idle" => (upload.submitted => upload.copied)

\* The effect of a call on the upload.
Perform(c, upload) ==
    LET counted == [upload EXCEPT !.done = @ + 1]
    IN  CASE c.fn \in {"create_buffer", "allocate_memory", "allocate_command_buffers"}
               -> [counted EXCEPT !.created = @ \cup {c.object},
                                  !.live = @ \cup {c.object}]
          [] c.fn \in {"destroy_buffer", "free_memory", "free_command_buffers"}
               -> [counted EXCEPT !.live = @ \ {c.object}]
          [] c.fn = "map_memory" -> [counted EXCEPT !.mapped = TRUE]
          [] c.fn = "copy_from_slice" -> [counted EXCEPT !.written = TRUE]
          [] c.fn = "unmap_memory" -> [counted EXCEPT !.mapped = FALSE]
          [] c.fn = "cmd_copy_buffer" -> [counted EXCEPT !.recorded = TRUE]
          [] c.fn = "queue_submit" -> [counted EXCEPT !.submitted = TRUE]
          [] c.fn = "queue_wait_idle" -> [counted EXCEPT !.waited = TRUE]
          [] OTHER -> counted

\* create_vertex_buffer / create_index_buffer call
\* create_device_local_buffer_with_data with their usage flag.
CreateDeviceLocalBufferWithData ==
    /\ call.fn = "none"
    /\ \E buffer_usage_flags \in {"VERTEX_BUFFER", "INDEX_BUFFER"} :
          call' = [fn |-> "create_device_local_buffer_with_data",
                   buffer_usage_flags |-> buffer_usage_flags]
    /\ returned' = UploadStart
    /\ UNCHANGED loopVars

\* The next Vulkan call of the upload.
UploadCall ==
    /\ call.fn = "create_device_local_buffer_with_data"
    /\ returned.done < Len(create_device_local_buffer_with_data)
    /\ LET c == create_device_local_buffer_with_data[returned.done + 1]
       IN  /\ Returns(c, returned)
           /\ returned' = Perform(c, returned)
    /\ UNCHANGED << call, loopVars >>

\* The transfer queue executes the submitted copy: it reads the staging
\* buffer and writes the destination buffer.
TransferQueueCopy ==
    /\ call.fn = "create_device_local_buffer_with_data"
    /\ returned.submitted
    /\ ~returned.copied
    /\ returned' = [returned EXCEPT !.copied = TRUE]
    /\ UNCHANGED << call, loopVars >>

\* The object was created and destroyed (or freed).
Gone(object) == object \in returned.created \ returned.live

\* C33: in the upload the staging buffer is destroyed, its memory freed and
\* the one-shot command buffer freed only after the copy was submitted and the
\* transfer queue was waited idle (the copy is done); the destination buffer
\* exists when the copy is recorded and the staging memory is written and
\* unmapped when the copy is submitted.
C33_UploadOrder ==
    call.fn = "create_device_local_buffer_with_data"
    => /\ \A object \in {"staging_buffer", "staging_buffer_memory", "command_buffer"} :
             Gone(object)
             => (returned.submitted /\ returned.waited /\ returned.copied)
       /\ (returned.submitted /\ ~returned.copied)
          => {"staging_buffer", "staging_buffer_memory", "buffer", "buffer_memory",
              "command_buffer"} \subseteq returned.live
       /\ returned.recorded => {"buffer", "buffer_memory"} \subseteq returned.created
       /\ returned.submitted => (returned.written /\ ~returned.mapped)

\* The upload has returned: the staging objects are gone, the destination
\* buffer is left.
C33_Witness ==
    /\ call.fn = "create_device_local_buffer_with_data"
    /\ returned.done = Len(create_device_local_buffer_with_data)
    /\ Gone("staging_buffer")
    /\ Gone("staging_buffer_memory")
    /\ Gone("command_buffer")
    /\ returned.live = {"buffer", "buffer_memory"}

NextNew ==
    \/ CreateSwapchainAndImages
    \/ CreateDeviceLocalBufferWithData
    \/ UploadCall
    \/ TransferQueueCopy
    \/ ChooseSwapchainSurfaceFormat
    \/ CheckRequiredExtensions
    \/ CheckValidationLayerSupport
    \/ CreateInstance
    \/ FindQueueFamilies
    \/ RatePhysicalDevice
    \/ SelectPhysicalDevice

SpecNew == Init /\ [][NextNew]_vars
====
